---- MODULE Spec2Model ----
(***************************************************************************)
(* The CNS IPAM invoker of the Azure CNI plugin (cni/network/invoker_cns.go)*)
(* as a state machine: Add and Delete of CNSIPAMInvoker, the CNS backend   *)
(* they talk to, the deferred-delete directory of the watcher and the      *)
(* options map handed on to endpoint creation; Add and Delete of the Local *)
(* adapter, AzureIPAMInvoker, on the delegate plugin it drives; and the    *)
(* secondary endpoint client with the mock namespace client.               *)
(***************************************************************************)
EXTENDS Integers, Sequences, FiniteSets, TLC

VARIABLES
    cnsBatch,      \* the backend exposes the batch API (RequestIPs / ReleaseIPs)
    cnsStrict,     \* the backend answers a release of nothing with a "not found" error
    cnsHealth,     \* "up" | "down" (socket unreachable) | "faulty" (answers with an error)
    cnsAllocs,     \* pod-interface-id -> the PodIpInfo list allocated to it (<<>>: none)
    deleteIDs,     \* pod-interface-id -> <<container-id>> file of the watcher directory (<<>>: no file)
    podState,      \* pod-interface-id -> "new" | "added" | "deleted", as the runtime sees the pod
    ipamMode,      \* invoker.ipamMode
    options,       \* the options map of the last Add's caller
    nat,           \* the host's NAT table: [chains, rules]
    pending,       \* the iptables commands of the last successful Add, not yet executed
    last,          \* what the last operation was given, called and returned
    plugin,        \* the delegate plugin the Local adapter drives, with the results it has left
    queue,         \* pod-interface-id -> the iptables commands its ADD left that endpoint creation
                   \* has not executed yet, when the ADDs of several pods run side by side
    ep             \* the endpoint of the SecondaryEndpointClient, the links of the pod and
                   \* the client's last call

vars == <<cnsBatch, cnsStrict, cnsHealth, cnsAllocs, deleteIDs, podState, ipamMode, options, nat, pending, last,
         plugin, queue, ep>>

\* ------------------------------------------------------------------ bounds

\* Longest pod-ip-info list a response of the rich Add specification holds.
MaxInfos == 3

\* ------------------------------------------------------------------ errors

NoErr == [text |-> "", cause |-> ""]

Err(text, cause) == [text |-> text, cause |-> cause]

errEmptyCNIArgs == Err("empty CNI cmd args not allowed", "")

errInvalidArgs == "invalid arg(s)"

overlayGatewayV6IP == "fe80::1234:5678:9abc"

\* errors.Wrap keeps the cause: the sentinel stays recognisable upstream
Wrap(cause, text) == Err(text, cause)

\* what a call of the CNS client can answer with
UnsupportedAPI == "UnsupportedAPI"
ConnectionFailure == "ConnectionFailure"
NotFound == "NotFound"
OtherFailure == "OtherFailure"
Ok == "ok"

\* cnscli.IsUnsupportedAPI(err)
IsUnsupportedAPI(e) == e = UnsupportedAPI

\* errors.As(err, &connectionErr)
IsConnectionFailureErr(e) == e = ConnectionFailure

\* ------------------------------------------------------------------ CNI args

ContainerIDs == {"c1", "c2"}

NilArgs == [ContainerID |-> "", IfName |-> ""]

CmdArgs == {[ContainerID |-> c, IfName |-> "eth0"] : c \in ContainerIDs}

\* the pod-interface-id is derived from the CNI args
GetEndpointID(args) == <<args.ContainerID, args.IfName>>

PodInterfaceIDs == {GetEndpointID(a) : a \in CmdArgs}

\* ------------------------------------------------------------------ addresses

\* A parsed net.IP: its family (4, 6; 0 for nil) and its octets (v4) or hextets (v6).
NilIP == [fam |-> 0, b |-> <<>>]

V4(a, b, c, d) == [fam |-> 4, b |-> <<a, b, c, d>>]

V6(h) == [fam |-> 6, b |-> h]

\* net.ParseIP on the textual addresses the model uses; any other text does not parse
ParseIP(s) ==
    CASE s = "10.1.2.3" -> V4(10, 1, 2, 3)
      [] s = "10.1.2.4" -> V4(10, 1, 2, 4)
      [] s = "10.1.2.1" -> V4(10, 1, 2, 1)
      [] s = "10.1.2.2" -> V4(10, 1, 2, 2)
      [] s = "20.1.1.10" -> V4(20, 1, 1, 10)
      [] s = "10.240.0.4" -> V4(10, 240, 0, 4)
      [] s = "10.240.0.1" -> V4(10, 240, 0, 1)
      [] s = "10.240.0.0" -> V4(10, 240, 0, 0)
      [] s = "10.1.0.0" -> V4(10, 1, 0, 0)
      [] s = "0.0.0.0" -> V4(0, 0, 0, 0)
      [] s = "169.254.1.1" -> V4(169, 254, 1, 1)
      [] s = "10.5.0.0" -> V4(10, 5, 0, 0)
      [] s = "10.6.0.0" -> V4(10, 6, 0, 0)
      [] s = "10.5.0.7" -> V4(10, 5, 0, 7)
      [] s = "fd11::3" -> V6(<<64785, 0, 0, 0, 0, 0, 0, 3>>)
      [] s = "fd11::2" -> V6(<<64785, 0, 0, 0, 0, 0, 0, 2>>)
      [] s = "fd11::1" -> V6(<<64785, 0, 0, 0, 0, 0, 0, 1>>)
      [] s = "fd11::" -> V6(<<64785, 0, 0, 0, 0, 0, 0, 0>>)
      [] s = "10.0.0.1" -> V4(10, 0, 0, 1)
      [] s = "10.0.0.2" -> V4(10, 0, 0, 2)
      [] s = "10.0.0.4" -> V4(10, 0, 0, 4)
      [] s = "10.0.0.0" -> V4(10, 0, 0, 0)
      [] s = "2001:0db8:abcd:0015::0" -> V6(<<8193, 3512, 43981, 21, 0, 0, 0, 0>>)
      [] s = "::" -> V6(<<0, 0, 0, 0, 0, 0, 0, 0>>)
      [] s = "fe80::1234:5678:9abc" -> V6(<<65152, 0, 0, 0, 0, 4660, 22136, 39612>>)
      [] OTHER -> NilIP

To4(ip) == IF ip.fam = 4 THEN ip ELSE NilIP

To16(ip) == IF ip.fam \in {4, 6} THEN ip ELSE NilIP

\* bits of one element of an address, and of the whole address
ElemBits(fam) == IF fam = 4 THEN 8 ELSE 16

AddrBits(fam) == IF fam = 4 THEN 32 ELSE 128

Min(a, b) == IF a < b THEN a ELSE b

Max(a, b) == IF a < b THEN b ELSE a

\* ip.Mask(net.CIDRMask(ones, bits)): the address with its host bits cleared
MaskIP(ip, ones) ==
    LET w == ElemBits(ip.fam)
        keep(i) == Min(w, Max(0, ones - w * (i - 1)))
    IN  [fam |-> ip.fam,
         b |-> [i \in 1..Len(ip.b) |-> ip.b[i] - (ip.b[i] % (2 ^ (w - keep(i))))]]

\* A net.IPNet; NilIPNet when the parse failed.
NilIPNet == [IP |-> NilIP, Mask |-> 0]

\* the network of prefix length ones a parsed address lies in
CIDROf(ip, ones) ==
    IF ip = NilIP \/ ones > AddrBits(ip.fam)
    THEN [ip |-> NilIP, ipnet |-> NilIPNet]
    ELSE [ip |-> ip, ipnet |-> [IP |-> MaskIP(ip, ones), Mask |-> ones]]

\* net.ParseCIDR(text + "/" + ones): the address, and the network it lies in
ParseCIDR(text, ones) == CIDROf(ParseIP(text), ones)

\* A textual CIDR, as the backend sends a route destination or the host subnet.
Cidr(text, ones) == [ip |-> text, len |-> ones]

\* cns.IPSubnet.GetIPNet: the pod IP config's address and prefix length
GetIPNet(ipconfig) == ParseCIDR(ipconfig.IPAddress, ipconfig.PrefixLength)

\* net.ParseMAC on the textual hardware addresses the model uses
ParseMAC(s) ==
    CASE s = "00:11:22:33:44:55" -> <<0, 17, 34, 51, 68, 85>>
      [] s = "00:11:22:33:44:66" -> <<0, 17, 34, 51, 68, 102>>
      [] OTHER -> <<>>

\* the first usable address of the nc subnet
getOverlayGateway(podsubnet) ==
    [fam |-> podsubnet.IP.fam,
     b |-> [podsubnet.IP.b EXCEPT ![Len(podsubnet.IP.b)] = @ + 1]]

Ipv4DefaultRouteDstPrefix == [IP |-> V4(0, 0, 0, 0), Mask |-> 0]

Ipv6DefaultRouteDstPrefix == [IP |-> V6(<<0, 0, 0, 0, 0, 0, 0, 0>>), Mask |-> 0]

\* ------------------------------------------------------------------ routes

\* getRoutes: the backend's routes as CNI routes; the first entry that does not
\* parse fails the whole list
\* an entry that does not parse is left out
appendRouteSkipsBad(route, dst, gw, rest) ==
    IF dst = NilIPNet \/ gw = NilIP THEN rest
    ELSE IF rest.err # NoErr THEN rest
    ELSE [routes |-> <<[Dst |-> dst, GW |-> gw]>> \o rest.routes, err |-> NoErr]

\* one entry of getRoutes' loop: route parsed to dst and gw, rest the entries after it
appendRoute(route, dst, gw, rest) ==
    IF dst = NilIPNet
    THEN [routes |-> <<>>, err |-> Err("unable to parse destination", route.IPAddress.ip)]
    ELSE IF gw = NilIP
    THEN [routes |-> <<>>, err |-> Err("unable to parse gateway", route.GatewayIPAddress)]
    ELSE IF rest.err # NoErr
    THEN rest
    ELSE [routes |-> <<[Dst |-> dst, GW |-> gw]>> \o rest.routes, err |-> NoErr]

RECURSIVE getRoutes(_)
getRoutes(cnsRoutes) ==
    IF cnsRoutes = <<>> THEN [routes |-> <<>>, err |-> NoErr]
    ELSE appendRoute(Head(cnsRoutes),
                     ParseCIDR(Head(cnsRoutes).IPAddress.ip, Head(cnsRoutes).IPAddress.len).ipnet,
                     ParseIP(Head(cnsRoutes).GatewayIPAddress),
                     getRoutes(Tail(cnsRoutes)))

\* ------------------------------------------------------------------ options map

\* The caller's options map: each key holds <<>> (absent) or <<value>>.
EmptyOptions == [SNATIPKey |-> <<>>, RoutesKey |-> <<>>, IPTablesKey |-> <<>>]

\* ------------------------------------------------------------------ host programming

Swift == "SWIFT"

Postrouting == "POSTROUTING"

NoMatch == [src |-> NilIPNet, dst |-> "", proto |-> "", dport |-> 0]

\* " -m addrtype ! --dst-type local -s <src> -d <dst> -p <proto> --dport <dport>"
Match(src, dst, proto, dport) == [src |-> src, dst |-> dst, proto |-> proto, dport |-> dport]

\* "SNAT --to <ip>", and the plain jump to a chain
SnatTo(ip) == [jump |-> "SNAT", to |-> ip]

JumpTo(chain) == [jump |-> chain, to |-> ""]

Rule(chain, match, target) == [chain |-> chain, match |-> match, target |-> target]

\* iptables.ChainExists, iptables.RuleExists: what the host's nat table holds now
ChainExists(t, chain) == chain \in t.chains

RuleExists(t, chain, match, target) ==
    \E i \in 1..Len(t.rules) : t.rules[i] = Rule(chain, match, target)

GetCreateChainCmd(chain) == [op |-> "N", rule |-> Rule(chain, NoMatch, JumpTo(""))]

GetAppendIptableRuleCmd(chain, match, target) == [op |-> "A", rule |-> Rule(chain, match, target)]

GetInsertIptableRuleCmd(chain, match, target) == [op |-> "I", rule |-> Rule(chain, match, target)]

\* cmd appended without looking at the host
AppendAlways(cmds, cond, cmd) == Append(cmds, cmd)

\* cmds with cmd appended when cond holds
AppendIf(cmds, cond, cmd) == IF cond THEN Append(cmds, cmd) ELSE cmds

\* the commands of setHostOptions with the jump ahead of the chain it jumps to
hostCmdsJumpFirst(t, dnsUDP, dnsTCP, imds, snatPrimaryIPJump, snatHostIPJump) ==
    AppendIf(
      AppendIf(
        AppendIf(
          AppendIf(
            AppendIf(<<>>, ~RuleExists(t, Postrouting, NoMatch, JumpTo(Swift)),
                     GetAppendIptableRuleCmd(Postrouting, NoMatch, JumpTo(Swift))),
            ~ChainExists(t, Swift), GetCreateChainCmd(Swift)),
          ~RuleExists(t, Swift, dnsUDP, snatPrimaryIPJump),
          GetInsertIptableRuleCmd(Swift, dnsUDP, snatPrimaryIPJump)),
        ~RuleExists(t, Swift, dnsTCP, snatPrimaryIPJump),
        GetInsertIptableRuleCmd(Swift, dnsTCP, snatPrimaryIPJump)),
      ~RuleExists(t, Swift, imds, snatHostIPJump),
      GetInsertIptableRuleCmd(Swift, imds, snatHostIPJump))

\* the commands of setHostOptions: each is emitted only if the host's nat table t
\* lacks its chain or rule
hostCmds(t, dnsUDP, dnsTCP, imds, snatPrimaryIPJump, snatHostIPJump) ==
    AppendIf(
      AppendIf(
        AppendIf(
          AppendIf(
            AppendIf(<<>>, ~ChainExists(t, Swift), GetCreateChainCmd(Swift)),
            ~RuleExists(t, Postrouting, NoMatch, JumpTo(Swift)),
            GetAppendIptableRuleCmd(Postrouting, NoMatch, JumpTo(Swift))),
          ~RuleExists(t, Swift, dnsUDP, snatPrimaryIPJump),
          GetInsertIptableRuleCmd(Swift, dnsUDP, snatPrimaryIPJump)),
        ~RuleExists(t, Swift, dnsTCP, snatPrimaryIPJump),
        GetInsertIptableRuleCmd(Swift, dnsTCP, snatPrimaryIPJump)),
      ~RuleExists(t, Swift, imds, snatHostIPJump),
      GetInsertIptableRuleCmd(Swift, imds, snatHostIPJump))

\* host options written whatever the host's addresses parse to
hostOptionsUnchecked(ncSubnetPrefix, opts, info, t, hostIP, hostGateway) ==
    [options |->
       [opts EXCEPT
          !.RoutesKey = <<(<<[Dst |-> ncSubnetPrefix, Gw |-> hostGateway]>>)>>,
          !.IPTablesKey =
              <<hostCmds(t,
                         Match(ncSubnetPrefix, "AzureDNS", "udp", 53),
                         Match(ncSubnetPrefix, "AzureDNS", "tcp", 53),
                         Match(ncSubnetPrefix, "AzureIMDS", "tcp", 80),
                         SnatTo(info.ncPrimaryIP),
                         SnatTo(info.hostPrimaryIP))>>],
     err |-> NoErr]

\* setHostOptions once the host's addresses are parsed
hostOptions(ncSubnetPrefix, opts, info, t, hostIP, hostGateway) ==
    IF hostIP = NilIP
    THEN [options |-> opts, err |-> Err("Host IP address from response is invalid", info.hostPrimaryIP)]
    ELSE IF hostGateway = NilIP
    THEN [options |-> opts, err |-> Err("Host Gateway from response is invalid", info.hostGateway)]
    ELSE [options |->
            [opts EXCEPT
               !.RoutesKey = <<(<<[Dst |-> ncSubnetPrefix, Gw |-> hostGateway]>>)>>,
               !.IPTablesKey =
                   <<hostCmds(t,
                              Match(ncSubnetPrefix, "AzureDNS", "udp", 53),
                              Match(ncSubnetPrefix, "AzureDNS", "tcp", 53),
                              Match(ncSubnetPrefix, "AzureIMDS", "tcp", 80),
                              SnatTo(info.ncPrimaryIP),
                              SnatTo(info.hostPrimaryIP))>>],
          err |-> NoErr]

\* setHostOptions: the route to the nc subnet through the host gateway and the
\* iptables commands still missing on the host, written to the options map
setHostOptions(ncSubnetPrefix, opts, info, t) ==
    hostOptions(ncSubnetPrefix, opts, info, t, ParseIP(info.hostPrimaryIP), ParseIP(info.hostGateway))

\* ------------------------------------------------------------------ Add: the result

Secondary == "Secondary"

Default == "Default"

IsOverlay(mode) == mode \in {"v4overlay", "dualStackOverlay", "overlay"}

\* A *cniTypesCurr.Result; nonNil is FALSE for the nil pointer.
NilIPResult == [nonNil |-> FALSE, IPs |-> <<>>, Routes |-> <<>>, Interfaces |-> <<>>]

\* CNIResult{} and IPAMAddResult{}
EmptyCNIResult ==
    [ipResult |-> NilIPResult, addressType |-> "", macAddress |-> <<>>, isDefaultInterface |-> FALSE]

EmptyAddResult ==
    [defaultCniResult |-> EmptyCNIResult, cniResults |-> <<>>,
     hostSubnetPrefix |-> NilIPNet, ipv6Enabled |-> FALSE]

\* The loop's variables: the result so far, isDefaultInterfaceSet, defaultRoutes,
\* the options map, and the error the loop returned with (NoErr while running).
LoopStart(opts) ==
    [addResult |-> EmptyAddResult, isDefaultInterfaceSet |-> FALSE, defaultRoutes |-> <<>>,
     options |-> opts, err |-> NoErr]

\* return IPAMAddResult{}, err
Fail(st, e) == [st EXCEPT !.addResult = EmptyAddResult, !.err = e]

\* a secondary allocation that marks the result ipv6 when its address is v6
secondaryMarksV6(st, info, parsed, macAddress, got) ==
    IF parsed.ip = NilIP \/ macAddress = <<>> \/ got.err # NoErr
    THEN Fail(st, Err("secondary allocation", info.podIPConfig.IPAddress))
    ELSE [st EXCEPT
            !.isDefaultInterfaceSet = @ \/ info.isDefaultInterface,
            !.addResult.ipv6Enabled = @ \/ (To4(parsed.ip) = NilIP),
            !.addResult.cniResults =
                Append(@, [ipResult |->
                              [nonNil |-> TRUE,
                               IPs |-> <<[Address |-> [IP |-> parsed.ip, Mask |-> parsed.ipnet.Mask],
                                          Gateway |-> NilIP]>>,
                               Routes |-> got.routes,
                               Interfaces |-> <<[Mac |-> info.macAddress]>>],
                           addressType |-> Secondary,
                           macAddress |-> macAddress,
                           isDefaultInterface |-> info.isDefaultInterface])]

\* a secondary allocation that leaves its address in the options map
secondaryWritesOptions(st, info, parsed, macAddress, got) ==
    [secondaryMarksV6(st, info, parsed, macAddress, got) EXCEPT
        !.options.SNATIPKey = <<info.podIPConfig.IPAddress>>]

\* case cns.Secondary of the loop, the address, the MAC and the routes parsed
secondaryParsed(st, info, parsed, macAddress, got) ==
    IF parsed.ip = NilIP
    THEN Fail(st, Err("Unable to parse IP from response", info.podIPConfig.IPAddress))
    ELSE IF macAddress = <<>>
    THEN Fail(st, Err("Invalid mac address", info.macAddress))
    ELSE IF got.err # NoErr
    THEN Fail(st, got.err)
    ELSE [st EXCEPT
            !.isDefaultInterfaceSet = @ \/ info.isDefaultInterface,
            !.addResult.cniResults =
                Append(@, [ipResult |->
                              [nonNil |-> TRUE,
                               IPs |-> <<[Address |-> [IP |-> parsed.ip, Mask |-> parsed.ipnet.Mask],
                                          Gateway |-> NilIP]>>,
                               Routes |-> got.routes,
                               Interfaces |-> <<[Mac |-> info.macAddress]>>],
                           addressType |-> Secondary,
                           macAddress |-> macAddress,
                           isDefaultInterface |-> info.isDefaultInterface])]

\* case cns.Secondary of the loop
addSecondary(st, info) ==
    secondaryParsed(st, info, GetIPNet(info.podIPConfig), ParseMAC(info.macAddress),
                    getRoutes(info.routes))

\* a gateway synthesized in every mode
overlayGatewayAnyMode(podIP, ncIPNet, mode) ==
    IF To4(podIP) # NilIP
    THEN [gw |-> getOverlayGateway(ncIPNet), err |-> NoErr]
    ELSE [gw |-> ParseIP(overlayGatewayV6IP), err |-> NoErr]

\* the gateway of a default allocation whose nc gateway does not parse: in an
\* overlay mode the synthesized one
overlayGateway(podIP, ncIPNet, mode) ==
    IF ~IsOverlay(mode)
    THEN [gw |-> NilIP, err |-> Wrap(errInvalidArgs, "Gateway address from response is invalid")]
    ELSE IF To4(podIP) # NilIP
    THEN [gw |-> getOverlayGateway(ncIPNet), err |-> NoErr]
    ELSE IF To16(podIP) # NilIP
    THEN [gw |-> ParseIP(overlayGatewayV6IP), err |-> NoErr]
    ELSE [gw |-> NilIP, err |-> Err("No podIPAddress is found", "")]

\* the gateway of a default allocation: the backend's, if it parses to ncgw
ncGateway(ncgw, podIP, ncIPNet, mode) ==
    IF ncgw # NilIP THEN [gw |-> ncgw, err |-> NoErr]
    ELSE overlayGateway(podIP, ncIPNet, mode)

\* a default allocation that replaces the default result instead of joining it
appendDefaultOverwrites(st, ip, ncIPNet, gw, routes, hostIPNet) ==
    [st EXCEPT
       !.addResult.ipv6Enabled = @ \/ (To4(ip) = NilIP),
       !.addResult.defaultCniResult.ipResult =
           [nonNil |-> TRUE,
            IPs |-> <<[Address |-> [IP |-> ip, Mask |-> ncIPNet.Mask], Gateway |-> gw]>>,
            Routes |-> routes,
            Interfaces |-> <<>>],
       !.defaultRoutes =
           <<[Dst |-> IF To4(ip) = NilIP THEN Ipv6DefaultRouteDstPrefix
                                         ELSE Ipv4DefaultRouteDstPrefix,
              GW |-> gw]>>,
       !.addResult.hostSubnetPrefix = hostIPNet]

\* a default allocation that marks the result ipv6 whatever its address
appendDefaultMarksV6(st, ip, ncIPNet, gw, routes, hostIPNet) ==
    [st EXCEPT
       !.addResult.ipv6Enabled = TRUE,
       !.addResult.defaultCniResult.ipResult =
           [nonNil |-> TRUE,
            IPs |-> Append(@.IPs, [Address |-> [IP |-> ip, Mask |-> ncIPNet.Mask], Gateway |-> gw]),
            Routes |-> @.Routes \o routes,
            Interfaces |-> @.Interfaces],
       !.defaultRoutes =
           Append(@, [Dst |-> IF To4(ip) = NilIP THEN Ipv6DefaultRouteDstPrefix
                                                ELSE Ipv4DefaultRouteDstPrefix,
                      GW |-> gw]),
       !.addResult.hostSubnetPrefix = hostIPNet]

\* the default result with one more default allocation: its IP config, its default
\* route and the backend's routes
appendDefault(st, ip, ncIPNet, gw, routes, hostIPNet) ==
    [st EXCEPT
       !.addResult.ipv6Enabled = @ \/ (To4(ip) = NilIP),
       !.addResult.defaultCniResult.ipResult =
           [nonNil |-> TRUE,
            IPs |-> Append(@.IPs, [Address |-> [IP |-> ip, Mask |-> ncIPNet.Mask], Gateway |-> gw]),
            Routes |-> @.Routes \o routes,
            Interfaces |-> @.Interfaces],
       !.defaultRoutes =
           Append(@, [Dst |-> IF To4(ip) = NilIP THEN Ipv6DefaultRouteDstPrefix
                                                ELSE Ipv4DefaultRouteDstPrefix,
                      GW |-> gw]),
       !.addResult.hostSubnetPrefix = hostIPNet]

\* host programming in every mode
defaultHostAnyMode(st, host, mode) ==
    IF host.err # NoErr THEN Fail(st, host.err) ELSE [st EXCEPT !.options = host.options]

\* the end of the default case: host programming unless the mode is an overlay one
defaultHost(st, host, mode) ==
    IF IsOverlay(mode) THEN st
    ELSE IF host.err # NoErr THEN Fail(st, host.err)
    ELSE [st EXCEPT !.options = host.options]

\* the default case after the SNAT key is written (st), with what it parses
defaultParsed(st, info, mode, t, parsed, gwr, got, hostIPNet) ==
    IF parsed.ip = NilIP
    THEN Fail(st, Err("Unable to parse IP from response", info.podIPConfig.IPAddress))
    ELSE IF gwr.err # NoErr
    THEN Fail(st, gwr.err)
    ELSE IF got.err # NoErr
    THEN Fail(st, got.err)
    ELSE IF hostIPNet = NilIPNet
    THEN Fail(st, Err("unable to parse hostSubnet", info.hostSubnet.ip))
    ELSE defaultHost(appendDefault(st, parsed.ip, parsed.ipnet, gwr.gw, got.routes, hostIPNet),
                     setHostOptions(parsed.ipnet, st.options, info, t), mode)

\* the default case with the pod address parsed
defaultWithIP(st, info, mode, t, parsed) ==
    defaultParsed(st, info, mode, t, parsed,
                  ncGateway(ParseIP(info.ncGatewayIPAddress), parsed.ip, parsed.ipnet, mode),
                  getRoutes(info.routes),
                  ParseCIDR(info.hostSubnet.ip, info.hostSubnet.len).ipnet)

\* the SNAT key written for an nc primary IP of either family
setSNATIPAnyFamily(opts, ncPrimaryIP) == [opts EXCEPT !.SNATIPKey = <<ncPrimaryIP>>]

\* the SNAT key holds the nc primary IP of a v4 allocation; it is not set for ipv6
setSNATIP(opts, ncPrimaryIP) ==
    IF To4(ParseIP(ncPrimaryIP)) # NilIP THEN [opts EXCEPT !.SNATIPKey = <<ncPrimaryIP>>] ELSE opts

\* default case of the loop; t is the host's nat table
addDefault(st, info, mode, t) ==
    defaultWithIP([st EXCEPT !.options = setSNATIP(@, info.ncPrimaryIP)], info, mode, t,
                  ParseCIDR(info.podIPConfig.IPAddress, info.ncSubnetPrefix))

\* the loop over response.PodIPInfo, in response order, left at the first error
RECURSIVE addLoop(_, _, _, _)
addLoop(infos, st, mode, t) ==
    IF infos = <<>> \/ st.err # NoErr THEN st
    ELSE addLoop(Tail(infos),
                 IF Head(infos).addressType = Secondary
                 THEN addSecondary(st, Head(infos))
                 ELSE addDefault(st, Head(infos), mode, t),
                 mode, t)

\* the default-type result always marked
defaultFlagAlways(isDefaultInterfaceSet) == TRUE

\* the default interface is the default-type result unless a secondary claimed it
defaultFlag(isDefaultInterfaceSet) == ~isDefaultInterfaceSet

PanicErr == Err("panic: nil pointer dereference", "")

\* an end of Add that adds the default routes to whatever routes there are
finishAddAppendsDefaults(st) ==
    IF st.err # NoErr
    THEN [result |-> EmptyAddResult, err |-> st.err, options |-> st.options]
    ELSE IF ~st.addResult.defaultCniResult.ipResult.nonNil
    THEN [result |-> EmptyAddResult, err |-> PanicErr, options |-> st.options]
    ELSE [result |->
            [st.addResult EXCEPT
               !.defaultCniResult.isDefaultInterface = defaultFlag(st.isDefaultInterfaceSet),
               !.defaultCniResult.ipResult.Routes = @ \o st.defaultRoutes],
          err |-> NoErr, options |-> st.options]

\* the end of Add, st being the loop's variables when it is left: the default
\* routes if the default result has none, and the default-interface flag. Reading
\* the routes of a nil default result panics.
finishAdd(st) ==
    IF st.err # NoErr
    THEN [result |-> EmptyAddResult, err |-> st.err, options |-> st.options]
    ELSE IF ~st.addResult.defaultCniResult.ipResult.nonNil
    THEN [result |-> EmptyAddResult, err |-> PanicErr, options |-> st.options]
    ELSE [result |->
            [st.addResult EXCEPT
               !.defaultCniResult.isDefaultInterface = defaultFlag(st.isDefaultInterfaceSet),
               !.defaultCniResult.ipResult.Routes = IF Len(@) = 0 THEN st.defaultRoutes ELSE @],
          err |-> NoErr, options |-> st.options]

\* what Add does with the backend's response
processResponse(podIPInfo, opts, mode, t) == finishAdd(addLoop(podIPInfo, LoopStart(opts), mode, t))

\* ------------------------------------------------------------------ the backend (CNS)

\* A cns.PodIpInfo of a response.
PodIpInfo(ip, podPrefix, ncPrefix, ncPrimary, gateway, type, mac, isDefault, routes) ==
    [podIPConfig |-> [IPAddress |-> ip, PrefixLength |-> podPrefix],
     ncSubnetPrefix |-> ncPrefix,
     ncPrimaryIP |-> ncPrimary,
     ncGatewayIPAddress |-> gateway,
     hostSubnet |-> Cidr("10.240.0.0", 16),
     hostPrimaryIP |-> "10.240.0.4",
     hostGateway |-> "10.240.0.1",
     addressType |-> type,
     macAddress |-> mac,
     isDefaultInterface |-> isDefault,
     routes |-> routes]

NoInfo == PodIpInfo("", 0, 0, "", "", "", "", FALSE, <<>>)

DefaultV4 == PodIpInfo("10.1.2.3", 32, 24, "10.1.2.2", "10.1.2.1", Default, "", FALSE, <<>>)

DefaultV4NoGateway == PodIpInfo("10.1.2.3", 32, 24, "10.1.2.2", "", Default, "", FALSE, <<>>)

DefaultV6 == PodIpInfo("fd11::3", 128, 64, "fd11::2", "fd11::1", Default, "", FALSE, <<>>)

SecondaryNIC == PodIpInfo("20.1.1.10", 24, 0, "", "", Secondary, "00:11:22:33:44:55", FALSE, <<>>)

SecondaryDefaultNIC == PodIpInfo("20.1.1.10", 24, 0, "", "", Secondary, "00:11:22:33:44:66", TRUE, <<>>)

SecondaryBadMAC == PodIpInfo("20.1.1.10", 24, 0, "", "", Secondary, "bad", FALSE, <<>>)

DefaultV6NoGateway == PodIpInfo("fd11::3", 128, 64, "fd11::2", "", Default, "", FALSE, <<>>)

SecondaryV6 == PodIpInfo("fd11::3", 128, 0, "", "", Secondary, "00:11:22:33:44:55", FALSE, <<>>)

\* A cns.Route: a textual destination CIDR and a textual gateway.
Route(dst, gw) == [IPAddress |-> dst, GatewayIPAddress |-> gw]

\* the allocation info with the routes rs
WithRoutes(info, rs) == [info EXCEPT !.routes = rs]

\* the request envelope of one pod interface
IPConfigsRequest(args, desired) ==
    [OrchestratorContext |-> <<"pod", args.ContainerID>>,
     PodInterfaceID |-> GetEndpointID(args),
     InfraContainerID |-> args.ContainerID,
     DesiredIPAddresses |-> desired]

\* what the backend answers before it looks at the request
CnsAnswer(api, health, batch) ==
    IF health = "down" THEN ConnectionFailure
    ELSE IF api \in {"RequestIPs", "ReleaseIPs"} /\ ~batch THEN UnsupportedAPI
    ELSE IF health = "faulty" THEN OtherFailure
    ELSE Ok

\* RequestIPs / RequestIPAddress: at most one live allocation per pod-interface-id;
\* pick is what the backend would allocate now
CnsRequest(api, req, allocs, health, batch, pick) ==
    LET e == CnsAnswer(api, health, batch)
        held == allocs[req.PodInterfaceID]
        given == IF held # <<>> THEN held ELSE pick
    IN  IF e # Ok THEN [err |-> e, PodIPInfo |-> <<>>, allocs |-> allocs]
        ELSE [err |-> Ok, PodIPInfo |-> given,
              allocs |-> [allocs EXCEPT ![req.PodInterfaceID] = given]]

\* ReleaseIPs / ReleaseIPAddress: releases whatever is bound to the pod-interface-id
CnsRelease(api, req, allocs, health, batch, strict) ==
    LET e == CnsAnswer(api, health, batch)
    IN  IF e # Ok THEN [err |-> e, allocs |-> allocs]
        ELSE IF allocs[req.PodInterfaceID] = <<>> /\ strict
        THEN [err |-> NotFound, allocs |-> allocs]
        ELSE [err |-> Ok, allocs |-> [allocs EXCEPT ![req.PodInterfaceID] = <<>>]]

Call(api, req, err) == [api |-> api, req |-> req, err |-> err]

\* ------------------------------------------------------------------ Add and Delete

\* an Add that goes to the singleton API at once
AddSingletonFirst(args, opts, mode, t, batch, single) ==
    [result |-> EmptyAddResult,
     err |-> Wrap(single.err, "Failed to get IP address from CNS"),
     options |-> opts,
     calls |-> <<Call("RequestIPAddress", IPConfigsRequest(args, <<>>), single.err)>>]

\* an Add that retries with the singleton API after any failure of the batch API
AddRetriesAnyError(args, opts, mode, t, batch, single) ==
    IF args = NilArgs
    THEN [result |-> EmptyAddResult, err |-> errEmptyCNIArgs, options |-> opts, calls |-> <<>>]
    ELSE IF batch.err = Ok
    THEN processResponse(batch.PodIPInfo, opts, mode, t) @@
         [calls |-> <<Call("RequestIPs", IPConfigsRequest(args, <<>>), batch.err)>>]
    ELSE IF single.err # Ok
    THEN [result |-> EmptyAddResult,
          err |-> Wrap(single.err, "Failed to get IP address from CNS"),
          options |-> opts,
          calls |-> <<Call("RequestIPs", IPConfigsRequest(args, <<>>), batch.err),
                      Call("RequestIPAddress", IPConfigsRequest(args, <<>>), single.err)>>]
    ELSE processResponse(<<single.PodIpInfo>>, opts, mode, t) @@
         [calls |-> <<Call("RequestIPs", IPConfigsRequest(args, <<>>), batch.err),
                      Call("RequestIPAddress", IPConfigsRequest(args, <<>>), single.err)>>]

\* CNSIPAMInvoker.Add. batch and single are the backend's answers to RequestIPs and,
\* if it comes to it, to RequestIPAddress; t is the host's nat table.
Add(args, opts, mode, t, batch, single) ==
    LET ipconfigs == IPConfigsRequest(args, <<>>)
        done(calls, out) ==
            [result |-> out.result, err |-> out.err, options |-> out.options, calls |-> calls]
        failed(calls, e) ==
            [result |-> EmptyAddResult, err |-> e, options |-> opts, calls |-> calls]
        c1 == Call("RequestIPs", ipconfigs, batch.err)
        c2 == Call("RequestIPAddress", ipconfigs, single.err)
    IN  IF args = NilArgs THEN failed(<<>>, errEmptyCNIArgs)
        ELSE IF batch.err = Ok
        THEN done(<<c1>>, processResponse(batch.PodIPInfo, opts, mode, t))
        ELSE IF IsUnsupportedAPI(batch.err)
        THEN IF single.err # Ok
             THEN failed(<<c1, c2>>, Wrap(single.err, "Failed to get IP address from CNS"))
             ELSE done(<<c1, c2>>, processResponse(<<single.PodIpInfo>>, opts, mode, t))
        ELSE failed(<<c1>>, Wrap(batch.err, "Failed to get IP address from CNS"))

\* address.IP.String()
IPString(ip) ==
    CASE ip = V4(10, 1, 2, 3) -> "10.1.2.3"
      [] ip = V6(<<64785, 0, 0, 0, 0, 0, 0, 3>>) -> "fd11::3"
      [] OTHER -> "<nil>"

\* the ReleaseIPs call of Delete: the address, if one is given, is the desired one
batchRelease(address, args, e) ==
    Call("ReleaseIPs",
         IPConfigsRequest(args, IF address # NilIPNet THEN <<IPString(address.IP)>> ELSE <<>>), e)

\* a singleton retry whose failure is dropped
singletonErrorIgnored(c1, c2, single) == [err |-> NoErr, calls |-> <<c1, c2>>, enqueue |-> <<>>]

\* the singleton retry of Delete: its failure is returned as it is
singletonRelease(c1, c2, single) ==
    IF single.err # Ok
    THEN [err |-> Wrap(single.err, "failed to release IP using ReleaseIPAddress"),
          calls |-> <<c1, c2>>, enqueue |-> <<>>]
    ELSE [err |-> NoErr, calls |-> <<c1, c2>>, enqueue |-> <<>>]

\* an enqueue that is reported as a failure of Delete
enqueueReturnsError(c1, file, addErr) ==
    [err |-> Wrap(ConnectionFailure, "failed to release IP using ReleaseIPs"),
     calls |-> <<c1>>, enqueue |-> file]

\* a connection failure that is swallowed: nothing is left to the watcher
enqueueSkipped(c1, file, addErr) == [err |-> NoErr, calls |-> <<c1>>, enqueue |-> <<>>]

\* the backend is unreachable: the release is left to the watcher
enqueueDelete(c1, file, addErr) ==
    IF addErr # ""
    THEN [err |-> Wrap(addErr, "failed to add file to watcher"), calls |-> <<c1>>, enqueue |-> file]
    ELSE [err |-> NoErr, calls |-> <<c1>>, enqueue |-> file]

\* a failed batch release taken for a release
otherErrorIgnored(c1, e) == [err |-> NoErr, calls |-> <<c1>>, enqueue |-> <<>>]

\* any other failure of the batch release is returned
releaseError(c1, e) ==
    [err |-> Wrap(e, "failed to release IP using ReleaseIPs"), calls |-> <<c1>>, enqueue |-> <<>>]

\* a Delete that does not look at its args before it builds the request
DeleteUnchecked(address, args, batch, single, addErr) ==
    IF batch.err = Ok
    THEN [err |-> NoErr,
          calls |-> <<batchRelease(address, args, batch.err)>>,
          enqueue |-> <<>>]
    ELSE IF IsConnectionFailureErr(batch.err)
    THEN enqueueDelete(
           batchRelease(address, args, batch.err),
           <<[name |-> GetEndpointID(args), content |-> args.ContainerID]>>,
           addErr)
    ELSE releaseError(
           batchRelease(address, args, batch.err),
           batch.err)

\* CNSIPAMInvoker.Delete. batch and single are the backend's answers to ReleaseIPs
\* and, if it comes to it, to ReleaseIPAddress; addErr is what fsnotify.AddFile
\* returns if it is called. enqueue is the file it was asked to write, if any.
Delete(address, args, batch, single, addErr) ==
    IF args = NilArgs THEN [err |-> errEmptyCNIArgs, calls |-> <<>>, enqueue |-> <<>>]
    ELSE IF batch.err = Ok
    THEN [err |-> NoErr,
          calls |-> <<batchRelease(address, args, batch.err)>>,
          enqueue |-> <<>>]
    ELSE IF IsUnsupportedAPI(batch.err)
    THEN singletonRelease(
           batchRelease(address, args, batch.err),
           Call("ReleaseIPAddress", IPConfigsRequest(args, <<>>), single.err),
           single)
    ELSE IF IsConnectionFailureErr(batch.err)
    THEN enqueueDelete(
           batchRelease(address, args, batch.err),
           <<[name |-> GetEndpointID(args), content |-> args.ContainerID]>>,
           addErr)
    ELSE releaseError(
           batchRelease(address, args, batch.err),
           batch.err)

\* fsnotify.AddFile: one file per pod-interface-id, holding the container id
AddFile(dir, podInterfaceID, containerID) == [dir EXCEPT ![podInterfaceID] = <<containerID>>]

\* ------------------------------------------------------------------ the Local adapter and its plugin

\* the name of the v6 IPAM plugin
ipamV6 == "azure-vnet-ipamv6"

\* ipam.ErrNoAvailableAddressPools
ErrNoAvailableAddressPools == "no available address pools"

\* the mock's slice index ran past its results: the call does not return
IndexPanic == "panic: index out of range"

\* the IPNet of a textual CIDR, its IP the address itself
getCIDRNotationForAddress(text, ones) ==
    [IP |-> ParseCIDR(text, ones).ip, Mask |-> ParseCIDR(text, ones).ipnet.Mask]

\* a result with the IP configs of the addresses, in order
getResult(ips) ==
    [nonNil |-> TRUE,
     IPs |-> [i \in 1..Len(ips) |->
                [Address |-> getCIDRNotationForAddress(ips[i].ip, ips[i].len), Gateway |-> NilIP]],
     Routes |-> <<>>,
     Interfaces |-> <<>>]

\* the results of a plugin that has one address to give
getSingleResult(text, ones) == <<getResult(<<Cidr(text, ones)>>)>>

\* mockDelegatePlugin: the results it has to give and the errors it answers with
\* ("": none)
MockPlugin(resultsIPv4, resultsIPv6, errv4, errv6, delErr) ==
    [resultsIPv4 |-> resultsIPv4, resultsIPv6 |-> resultsIPv6,
     resultsIPv4Index |-> 0, resultsIPv6Index |-> 0,
     errv4 |-> errv4, errv6 |-> errv6, del |-> [err |-> delErr]]

NoPlugin == MockPlugin(<<>>, <<>>, "", "", "")

\* add.DelegateAdd: the answer, and the plugin after it
DelegateAdd(d, pluginName) ==
    IF pluginName = ipamV6
    THEN IF d.errv6 # ""
         THEN [res |-> NilIPResult, err |-> d.errv6, d |-> d]
         ELSE IF d.resultsIPv6 = <<>> \/ d.resultsIPv6Index - 1 > Len(d.resultsIPv6)
         THEN [res |-> NilIPResult, err |-> "no more ipv6 results in mock available", d |-> d]
         ELSE IF d.resultsIPv6Index >= Len(d.resultsIPv6)
         THEN [res |-> NilIPResult, err |-> IndexPanic, d |-> d]
         ELSE [res |-> d.resultsIPv6[d.resultsIPv6Index + 1], err |-> "",
               d |-> [d EXCEPT !.resultsIPv6Index = @ + 1]]
    ELSE IF d.errv4 # ""
         THEN [res |-> NilIPResult, err |-> d.errv4, d |-> d]
         ELSE IF d.resultsIPv4 = <<>> \/ d.resultsIPv4Index - 1 > Len(d.resultsIPv4)
         THEN [res |-> NilIPResult, err |-> "no more ipv4 results in mock available", d |-> d]
         ELSE IF d.resultsIPv4Index >= Len(d.resultsIPv4)
         THEN [res |-> NilIPResult, err |-> IndexPanic, d |-> d]
         ELSE [res |-> d.resultsIPv4[d.resultsIPv4Index + 1], err |-> "",
               d |-> [d EXCEPT !.resultsIPv4Index = @ + 1]]

\* del.DelegateDel
DelegateDel(d, pluginName) == d.del.err

\* mockDelegatePlugin.Errorf: an error whose message holds the cause's text
Errorf(format, cause) == Err(format, cause)

\* a network config with the ipv6 mode; the tests leave its IPAM type empty
NetworkConfig(ipv6Mode) == [IPV6Mode |-> ipv6Mode, IPAM |-> [Type |-> ""]]

\* the IPAMAddResult of the Local adapter: one default result
LocalResult(ipResult, subnetPrefix, ipv6Enabled) ==
    [EmptyAddResult EXCEPT !.defaultCniResult.ipResult = ipResult,
                           !.hostSubnetPrefix = subnetPrefix,
                           !.ipv6Enabled = ipv6Enabled]

\* a Local Add that asks the v6 plugin whatever the v4 plugin answered
AzureAddAlwaysV6(nwCfg, args, subnetPrefix, v4, v6, delErr) ==
    [result |-> LocalResult([v4.res EXCEPT !.IPs = @ \o v6.res.IPs], subnetPrefix, v6.err = ""),
     err |-> IF v4.err # "" THEN Errorf("Failed to allocate pool", v4.err)
             ELSE IF v6.err # "" THEN Errorf("Failed to allocate v6 pool", v6.err) ELSE NoErr,
     calls |-> <<Call("DelegateAdd", nwCfg.IPAM.Type, v4.err), Call("DelegateAdd", ipamV6, v6.err)>>,
     d |-> v6.d]

\* a Local Add that returns nothing when the v6 plugin fails and leaves the v4
\* allocation in place
AzureAddDropsPartial(nwCfg, args, subnetPrefix, v4, v6, delErr) ==
    IF v4.err # ""
    THEN [result |-> EmptyAddResult, err |-> Errorf("Failed to allocate pool", v4.err),
          calls |-> <<Call("DelegateAdd", nwCfg.IPAM.Type, v4.err)>>, d |-> v4.d]
    ELSE IF nwCfg.IPV6Mode = ""
    THEN [result |-> LocalResult(v4.res, subnetPrefix, FALSE), err |-> NoErr,
          calls |-> <<Call("DelegateAdd", nwCfg.IPAM.Type, v4.err)>>, d |-> v4.d]
    ELSE IF v6.err # ""
    THEN [result |-> EmptyAddResult, err |-> Errorf("Failed to allocate v6 pool", v6.err),
          calls |-> <<Call("DelegateAdd", nwCfg.IPAM.Type, v4.err), Call("DelegateAdd", ipamV6, v6.err)>>,
          d |-> v6.d]
    ELSE [result |-> LocalResult([v4.res EXCEPT !.IPs = @ \o v6.res.IPs], subnetPrefix, TRUE),
          err |-> NoErr,
          calls |-> <<Call("DelegateAdd", nwCfg.IPAM.Type, v4.err), Call("DelegateAdd", ipamV6, v6.err)>>,
          d |-> v6.d]

\* a Local Add that puts the v6 plugin's IPs first
AzureAddV6First(nwCfg, args, subnetPrefix, v4, v6, delErr) ==
    IF v4.err # ""
    THEN [result |-> EmptyAddResult, err |-> Errorf("Failed to allocate pool", v4.err),
          calls |-> <<Call("DelegateAdd", nwCfg.IPAM.Type, v4.err)>>, d |-> v4.d]
    ELSE IF nwCfg.IPV6Mode = ""
    THEN [result |-> LocalResult(v4.res, subnetPrefix, FALSE), err |-> NoErr,
          calls |-> <<Call("DelegateAdd", nwCfg.IPAM.Type, v4.err)>>, d |-> v4.d]
    ELSE IF v6.err # ""
    THEN [result |-> LocalResult(v4.res, NilIPNet, FALSE),
          err |-> Errorf("Failed to allocate v6 pool", v6.err),
          calls |-> <<Call("DelegateAdd", nwCfg.IPAM.Type, v4.err), Call("DelegateAdd", ipamV6, v6.err),
                      Call("DelegateDel", nwCfg.IPAM.Type, delErr)>>,
          d |-> v6.d]
    ELSE [result |-> LocalResult([v4.res EXCEPT !.IPs = v6.res.IPs \o @], subnetPrefix, TRUE),
          err |-> NoErr,
          calls |-> <<Call("DelegateAdd", nwCfg.IPAM.Type, v4.err), Call("DelegateAdd", ipamV6, v6.err)>>,
          d |-> v6.d]

\* a Local Add that wants CNI args as the Remote one does
AzureAddChecksArgs(nwCfg, args, subnetPrefix, v4, v6, delErr) ==
    IF args = NilArgs
    THEN [result |-> EmptyAddResult, err |-> errEmptyCNIArgs, calls |-> <<>>, d |-> v4.d]
    ELSE AzureAddDropsPartial(nwCfg, args, subnetPrefix, v4, v6, delErr)

\* AzureIPAMInvoker.Add. v4 and v6 are the answers of the v4 and, if it comes to
\* it, of the v6 plugin, delErr the one of the delegated delete of the roll-back.
\* The CNI args are not read.
AzureAdd(nwCfg, args, subnetPrefix, v4, v6, delErr) ==
    IF v4.err # ""
    THEN [result |-> EmptyAddResult, err |-> Errorf("Failed to allocate pool", v4.err),
          calls |-> <<Call("DelegateAdd", nwCfg.IPAM.Type, v4.err)>>, d |-> v4.d]
    ELSE IF nwCfg.IPV6Mode = ""
    THEN [result |-> LocalResult(v4.res, subnetPrefix, FALSE), err |-> NoErr,
          calls |-> <<Call("DelegateAdd", nwCfg.IPAM.Type, v4.err)>>, d |-> v4.d]
    ELSE IF v6.err # ""
    THEN [result |-> LocalResult(v4.res, NilIPNet, FALSE),
          err |-> Errorf("Failed to allocate v6 pool", v6.err),
          calls |-> <<Call("DelegateAdd", nwCfg.IPAM.Type, v4.err), Call("DelegateAdd", ipamV6, v6.err),
                      Call("DelegateDel", nwCfg.IPAM.Type, delErr)>>,
          d |-> v6.d]
    ELSE [result |-> LocalResult([v4.res EXCEPT !.IPs = @ \o v6.res.IPs], subnetPrefix, TRUE),
          err |-> NoErr,
          calls |-> <<Call("DelegateAdd", nwCfg.IPAM.Type, v4.err), Call("DelegateAdd", ipamV6, v6.err)>>,
          d |-> v6.d]

\* the address must not be nil
errInvalidAddress == Err("invalid address", "")

\* a Local Delete that asks the v4 plugin whatever the family of the address
AzureDeleteAlwaysV4(address, nwCfg, args, delV4, delV6) ==
    IF address = NilIPNet THEN [err |-> errInvalidAddress, calls |-> <<>>]
    ELSE [err |-> IF delV4 = "" THEN NoErr ELSE Err(delV4, ""),
          calls |-> <<Call("DelegateDel", nwCfg.IPAM.Type, delV4)>>]

\* AzureIPAMInvoker.Delete. delV4 and delV6 are what the delegated delete of the v4
\* and of the v6 plugin answers if it is called. The CNI args are not read.
AzureDelete(address, nwCfg, args, delV4, delV6) ==
    IF address = NilIPNet THEN [err |-> errInvalidAddress, calls |-> <<>>]
    ELSE IF To4(address.IP) # NilIP
    THEN [err |-> IF delV4 = "" THEN NoErr ELSE Err(delV4, ""),
          calls |-> <<Call("DelegateDel", nwCfg.IPAM.Type, delV4)>>]
    ELSE [err |-> IF delV6 = "" THEN NoErr ELSE Err(delV6, ""),
          calls |-> <<Call("DelegateDel", ipamV6, delV6)>>]

\* ------------------------------------------------------------------ the secondary endpoint client

\* newErrorSecondaryEndpointClient
newErrorSecondaryEndpointClient(cause) == Err("SecondaryEndpointClient Error", cause)

\* the hardware address the mock netio knows
hwAddr == "ab:cd:ef:12:34:56"

\* MockNetIO.GetNetworkInterfaceByMac: the interface eth1 for hwAddr, an error for
\* any other address
GetNetworkInterfaceByMac(mac) ==
    IF mac # hwAddr THEN [Name |-> "", err |-> "netio fail: " \o mac] ELSE [Name |-> "eth1", err |-> ""]

\* the interface names of the model: the one the netio resolves, and one it does not
IfNames == {"eth1", "eth9"}

\* a RouteInfo
RouteInfo(dst, gw, scope) == [Dst |-> dst, Gw |-> gw, Scope |-> scope]

\* the default route of a default interface, on the device; defaultGw and
\* defaultGwCidr are declared outside these files and taken as 0.0.0.0 and 0.0.0.0/0
defaultRoute == RouteInfo(ParseCIDR("0.0.0.0", 0).ipnet, NilIP, "")

\* the routes the older client adds to a default interface: to the virtual gateway
\* on the link, and the default route via it; virtualGwIPString is declared outside
\* these files and taken as 169.254.1.1/32
virtualGwRoute == RouteInfo(ParseCIDR("169.254.1.1", 32).ipnet, NilIP, "link")

defaultRouteViaGw == RouteInfo(ParseCIDR("0.0.0.0", 0).ipnet, ParseCIDR("169.254.1.1", 32).ip, "")

\* the last call of the client: what it was, the endpoint info as the call left it,
\* the error and, for the namespace client, whether a namespace object came back
ClientCall(op, epInfo, err, ns) == [op |-> op, epInfo |-> epInfo, err |-> err, ns |-> ns]

NoEpInfo ==
    [MacAddress |-> "", IfName |-> "", IPAddresses |-> <<>>, NICType |-> "",
     IsDefaultInterface |-> FALSE, Routes |-> <<>>]

\* An endpoint without secondary interfaces, in a pod whose links have no address
\* and no route; legacy tells the older client from the current one.
Endpoint(legacy) ==
    [legacy |-> legacy,
     SecondaryInterfaces |-> [n \in IfNames |-> <<>>],
     addrs |-> [n \in IfNames |-> {}],     \* the addresses assigned to each link
     routes |-> [n \in IfNames |-> {}],    \* the routes the netlink has added to each link
     call |-> ClientCall("none", NoEpInfo, NoErr, FALSE)]

\* an AddEndpoints that registers the interface again when it is registered
AddEndpointsOverwrites(e, epInfo, iface) ==
    IF iface.err # ""
    THEN [e EXCEPT !.call = ClientCall("AddEndpoints", epInfo, newErrorSecondaryEndpointClient(iface.err), FALSE)]
    ELSE [e EXCEPT
            !.SecondaryInterfaces[iface.Name] =
                <<[Name |-> iface.Name, MacAddress |-> epInfo.MacAddress,
                   IPAddress |-> epInfo.IPAddresses, NICType |-> epInfo.NICType,
                   IsDefaultInterface |-> epInfo.IsDefaultInterface, Routes |-> <<>>]>>,
            !.call = ClientCall("AddEndpoints", [epInfo EXCEPT !.IfName = iface.Name], NoErr, FALSE)]

\* SecondaryEndpointClient.AddEndpoints; iface is what the netio resolves the MAC to
AddEndpoints(e, epInfo, iface) ==
    IF iface.err # ""
    THEN [e EXCEPT !.call = ClientCall("AddEndpoints", epInfo, newErrorSecondaryEndpointClient(iface.err), FALSE)]
    ELSE IF e.SecondaryInterfaces[iface.Name] # <<>>
    THEN [e EXCEPT !.call = ClientCall("AddEndpoints", [epInfo EXCEPT !.IfName = iface.Name],
                                       newErrorSecondaryEndpointClient(iface.Name \o " already exists"),
                                       FALSE)]
    ELSE [e EXCEPT
            !.SecondaryInterfaces[iface.Name] =
                <<[Name |-> iface.Name, MacAddress |-> epInfo.MacAddress,
                   IPAddress |-> epInfo.IPAddresses, NICType |-> epInfo.NICType,
                   IsDefaultInterface |-> epInfo.IsDefaultInterface, Routes |-> <<>>]>>,
            !.call = ClientCall("AddEndpoints", [epInfo EXCEPT !.IfName = iface.Name], NoErr, FALSE)]

\* addRoutes: the routes are added to the link one by one; failAt is the route the
\* netlink fails on (0: none), the routes before it stay added
addRoutes(e, ifName, routes, failAt) ==
    IF failAt \in 1..Len(routes)
    THEN [e |-> [e EXCEPT !.routes[ifName] = @ \cup {routes[i] : i \in 1..(failAt - 1)}],
          err |-> "netlink fail"]
    ELSE [e |-> [e EXCEPT !.routes[ifName] = @ \cup {routes[i] : i \in 1..Len(routes)}], err |-> ""]

\* ifInfo.Routes = append(ifInfo.Routes, routes...)
recordRoutes(e, ifName, routes) ==
    [e EXCEPT !.SecondaryInterfaces[ifName][1].Routes = @ \o routes]

\* routes recorded whether or not they were added
recordRoutesAnyway(added, ifName, routes, epInfo) ==
    [recordRoutes(added.e, ifName, routes) EXCEPT
        !.call = ClientCall("ConfigureContainerInterfacesAndRoutes", epInfo,
                            IF added.err # "" THEN newErrorSecondaryEndpointClient(added.err) ELSE NoErr,
                            FALSE)]

\* the end of ConfigureContainerInterfacesAndRoutes: added is what addRoutes
\* returned for routes; they are recorded when it returned no error
routesAdded(added, ifName, routes, epInfo) ==
    IF added.err # ""
    THEN [added.e EXCEPT !.call = ClientCall("ConfigureContainerInterfacesAndRoutes", epInfo,
                                             newErrorSecondaryEndpointClient(added.err), FALSE)]
    ELSE [recordRoutes(added.e, ifName, routes) EXCEPT
             !.call = ClientCall("ConfigureContainerInterfacesAndRoutes", epInfo, NoErr, FALSE)]

\* ConfigureContainerInterfacesAndRoutes of the current client after
\* AssignIPToInterface returned without error (e is the endpoint with the addresses
\* assigned); f1 is where the netlink fails on the default route, f3 where on the
\* routes of the endpoint info
assigned(e, epInfo, assignErr, f1, f2, f3) ==
    IF e.SecondaryInterfaces[epInfo.IfName] = <<>>
    THEN [e EXCEPT !.call = ClientCall("ConfigureContainerInterfacesAndRoutes", epInfo,
                                       newErrorSecondaryEndpointClient(epInfo.IfName \o " does not exist"),
                                       FALSE)]
    ELSE IF epInfo.IsDefaultInterface
    THEN routesAdded(addRoutes(e, epInfo.IfName, <<defaultRoute>>, f1),
                     epInfo.IfName, <<defaultRoute>>, epInfo)
    ELSE routesAdded(addRoutes(e, epInfo.IfName, epInfo.Routes, f3),
                     epInfo.IfName, epInfo.Routes, epInfo)

\* the same of the older client: f1 and f2 are where the netlink fails on the route
\* to the virtual gateway and on the default route via it
assignedLegacy(e, epInfo, assignErr, f1, f2, f3) ==
    IF e.SecondaryInterfaces[epInfo.IfName] = <<>>
    THEN [e EXCEPT !.call = ClientCall("ConfigureContainerInterfacesAndRoutes", epInfo,
                                       newErrorSecondaryEndpointClient(epInfo.IfName \o " does not exist"),
                                       FALSE)]
    ELSE IF ~epInfo.IsDefaultInterface
    THEN routesAdded(addRoutes(e, epInfo.IfName, epInfo.Routes, f3),
                     epInfo.IfName, epInfo.Routes, epInfo)
    ELSE IF f1 = 1
    THEN routesAdded(addRoutes(e, epInfo.IfName, <<virtualGwRoute>>, f1),
                     epInfo.IfName, <<virtualGwRoute>>, epInfo)
    ELSE IF f2 = 1
    THEN routesAdded(addRoutes(recordRoutes(addRoutes(e, epInfo.IfName, <<virtualGwRoute>>, 0).e,
                                            epInfo.IfName, <<virtualGwRoute>>),
                               epInfo.IfName, <<defaultRouteViaGw>>, f2),
                     epInfo.IfName, <<defaultRouteViaGw>>, epInfo)
    ELSE routesAdded(addRoutes(recordRoutes(addRoutes(e, epInfo.IfName,
                                                      <<virtualGwRoute, defaultRouteViaGw>>, 0).e,
                                            epInfo.IfName, <<virtualGwRoute, defaultRouteViaGw>>),
                               epInfo.IfName, epInfo.Routes, f3),
                     epInfo.IfName, epInfo.Routes, epInfo)

\* SecondaryEndpointClient.ConfigureContainerInterfacesAndRoutes; assignErr is what
\* AssignIPToInterface returns ("": the addresses are assigned)
ConfigureContainerInterfacesAndRoutes(e, epInfo, assignErr, f1, f2, f3) ==
    IF assignErr # ""
    THEN [e EXCEPT !.call = ClientCall("ConfigureContainerInterfacesAndRoutes", epInfo,
                                       newErrorSecondaryEndpointClient(assignErr), FALSE)]
    ELSE IF e.legacy
    THEN assignedLegacy([e EXCEPT !.addrs[epInfo.IfName] = @ \cup {epInfo.IPAddresses[i] : i \in 1..Len(epInfo.IPAddresses)}],
                        epInfo, assignErr, f1, f2, f3)
    ELSE assigned([e EXCEPT !.addrs[epInfo.IfName] = @ \cup {epInfo.IPAddresses[i] : i \in 1..Len(epInfo.IPAddresses)}],
                  epInfo, assignErr, f1, f2, f3)

\* MockNamespaceClient.OpenNamespace: a namespace object for a path, none for ""
OpenNamespace(ns) ==
    IF ns = "" THEN [ns |-> FALSE, err |-> Err("errFileNotExist", "")] ELSE [ns |-> TRUE, err |-> NoErr]

\* MockNamespaceClient.GetCurrentThreadNamespace
GetCurrentThreadNamespace == OpenNamespace("")

\* ------------------------------------------------------------------ the state machine

IpamModes == {"", "v4overlay", "dualStackOverlay", "overlay"}

Health == {"up", "down", "faulty"}

\* nwCfg.IPV6Mode: not set, or ipv6nat
IPV6Modes == {"", "ipv6nat"}

\* what the backend of the lifecycle specification allocates to a pod interface
AllocPool == {<<DefaultV4, SecondaryNIC>>}

\* the address a Delete may be given: none, or the pod's
Addresses == {NilIPNet, [IP |-> V4(10, 1, 2, 3), Mask |-> 24]}

\* no commands wait for execution
NoQueue == [p \in PodInterfaceIDs |-> <<>>]

NoOp ==
    [op |-> "none", args |-> NilArgs, address |-> NilIPNet, calls |-> <<>>, err |-> NoErr,
     result |-> EmptyAddResult, response |-> <<>>, enqueue |-> <<>>, addErr |-> "",
     dirBefore |-> [p \in PodInterfaceIDs |-> <<>>], heldBefore |-> <<>>, stateBefore |-> "",
     optionsBefore |-> EmptyOptions,
     ipv6Mode |-> ""]

Init ==
    /\ cnsBatch \in BOOLEAN
    /\ cnsStrict \in BOOLEAN
    /\ cnsHealth = "up"
    /\ cnsAllocs = [p \in PodInterfaceIDs |-> <<>>]
    /\ deleteIDs = [p \in PodInterfaceIDs |-> <<>>]
    /\ podState = [p \in PodInterfaceIDs |-> "new"]
    /\ ipamMode \in {"", "overlay"}
    /\ options = EmptyOptions
    /\ nat = [chains |-> {Postrouting}, rules |-> <<>>]
    /\ pending = <<>>
    /\ last = NoOp
    /\ plugin = NoPlugin
    /\ queue = NoQueue
    /\ ep = Endpoint(FALSE)

\* no call reaches the backend when the args are nil: the answer is never read
NoAnswer == [err |-> OtherFailure, PodIPInfo |-> <<>>, allocs |-> cnsAllocs]

\* the singleton API allocates one address: the first the backend would give
FirstOf(pick) == IF pick = <<>> THEN <<>> ELSE <<Head(pick)>>

\* the answer of RequestIPAddress as the client returns it: one PodIpInfo
Single(a) == [err |-> a.err, PodIpInfo |-> IF a.PodIPInfo = <<>> THEN NoInfo ELSE Head(a.PodIPInfo)]

\* the backend after the calls of one operation: a1 and a2 are its answers to the
\* batch and to the singleton call, n the number of calls made
AllocsAfter(n, a1, a2) == IF n = 0 THEN cnsAllocs ELSE IF n = 1 THEN a1.allocs ELSE a2.allocs

\* the health of the backend at the singleton retry: it may have changed since the
\* batch call
RetryHealth == IF cnsBatch \/ cnsHealth = "down" THEN {cnsHealth} ELSE Health

\* what the backend may allocate to args now: nothing new if it holds an allocation
Picks(args, pool) ==
    IF args # NilArgs /\ cnsAllocs[GetEndpointID(args)] # <<>>
    THEN {cnsAllocs[GetEndpointID(args)]} ELSE pool

\* the state after an Add that returned out
AddStep(args, ipv6Mode, a1, a2, h2, out) ==
    /\ cnsAllocs' = AllocsAfter(Len(out.calls), a1, a2)
    /\ cnsHealth' = IF Len(out.calls) = 2 THEN h2 ELSE cnsHealth
    /\ podState' = IF out.err = NoErr /\ args # NilArgs /\ podState[GetEndpointID(args)] = "new"
                   THEN [podState EXCEPT ![GetEndpointID(args)] = "added"] ELSE podState
    /\ options' = out.options
    /\ pending' = IF out.err = NoErr /\ out.options.IPTablesKey # <<>>
                  THEN out.options.IPTablesKey[1] ELSE <<>>
    /\ last' = [NoOp EXCEPT !.op = "Add", !.args = args, !.ipv6Mode = ipv6Mode,
                            !.calls = out.calls,
                            !.err = out.err, !.result = out.result,
                            !.response = IF Len(out.calls) = 1 THEN a1.PodIPInfo
                                         ELSE IF Len(out.calls) = 2 THEN a2.PodIPInfo
                                         ELSE <<>>,
                            !.dirBefore = deleteIDs,
                            !.heldBefore = IF args = NilArgs THEN <<>> ELSE cnsAllocs[GetEndpointID(args)],
                            !.stateBefore = IF args = NilArgs THEN "" ELSE podState[GetEndpointID(args)]]
    /\ UNCHANGED <<cnsBatch, cnsStrict, deleteIDs, ipamMode, nat, plugin, queue, ep>>

\* One ADD of the runtime for args: the invoker's Add against the backend as it is
\* now (it may change before the singleton retry), with a fresh options map. The
\* network config comes with an ipv6 mode or without; Add does not read it.
RemoteAdd(args, pool) ==
    /\ args # NilArgs => podState[GetEndpointID(args)] # "deleted"
    /\ \E pick \in Picks(args, pool), h2 \in RetryHealth, ipv6Mode \in IPV6Modes :
         \E a1 \in {IF args = NilArgs THEN NoAnswer
                     ELSE CnsRequest("RequestIPs", IPConfigsRequest(args, <<>>),
                                     cnsAllocs, cnsHealth, cnsBatch, pick)},
            a2 \in {IF args = NilArgs THEN NoAnswer
                     ELSE CnsRequest("RequestIPAddress", IPConfigsRequest(args, <<>>),
                                     cnsAllocs, h2, cnsBatch, FirstOf(pick))} :
           \E out \in {Add(args, EmptyOptions, ipamMode, nat, a1, Single(a2))} :
              AddStep(args, ipv6Mode, a1, a2, h2, out)

\* a Delete after which the caller's options and the commands not yet executed are
\* gone
DeleteStepDropsOptions(args, address, a1, a2, h2, addErr, out) ==
    /\ cnsAllocs' = AllocsAfter(Len(out.calls), a1, a2)
    /\ cnsHealth' = IF Len(out.calls) = 2 THEN h2 ELSE cnsHealth
    /\ deleteIDs' = IF out.enqueue # <<>> /\ addErr = ""
                    THEN AddFile(deleteIDs, out.enqueue[1].name, out.enqueue[1].content)
                    ELSE deleteIDs
    /\ podState' = IF out.err = NoErr /\ args # NilArgs
                   THEN [podState EXCEPT ![GetEndpointID(args)] = "deleted"] ELSE podState
    /\ last' = [NoOp EXCEPT !.op = "Delete", !.args = args, !.address = address,
                            !.calls = out.calls, !.err = out.err,
                            !.enqueue = out.enqueue,
                            !.addErr = IF out.enqueue # <<>> THEN addErr ELSE "",
                            !.dirBefore = deleteIDs,
                            !.heldBefore = IF args = NilArgs THEN <<>> ELSE cnsAllocs[GetEndpointID(args)],
                            !.stateBefore = IF args = NilArgs THEN "" ELSE podState[GetEndpointID(args)]]
    /\ options' = EmptyOptions
    /\ pending' = <<>>
    /\ UNCHANGED <<cnsBatch, cnsStrict, ipamMode, nat, plugin, queue, ep>>

\* the state after a Delete that returned out
DeleteStep(args, address, a1, a2, h2, addErr, out) ==
    /\ cnsAllocs' = AllocsAfter(Len(out.calls), a1, a2)
    /\ cnsHealth' = IF Len(out.calls) = 2 THEN h2 ELSE cnsHealth
    /\ deleteIDs' = IF out.enqueue # <<>> /\ addErr = ""
                    THEN AddFile(deleteIDs, out.enqueue[1].name, out.enqueue[1].content)
                    ELSE deleteIDs
    /\ podState' = IF out.err = NoErr /\ args # NilArgs
                   THEN [podState EXCEPT ![GetEndpointID(args)] = "deleted"] ELSE podState
    /\ last' = [NoOp EXCEPT !.op = "Delete", !.args = args, !.address = address,
                            !.calls = out.calls, !.err = out.err,
                            !.enqueue = out.enqueue,
                            !.addErr = IF out.enqueue # <<>> THEN addErr ELSE "",
                            !.dirBefore = deleteIDs,
                            !.heldBefore = IF args = NilArgs THEN <<>> ELSE cnsAllocs[GetEndpointID(args)],
                            !.stateBefore = IF args = NilArgs THEN "" ELSE podState[GetEndpointID(args)]]
    /\ UNCHANGED <<cnsBatch, cnsStrict, ipamMode, options, nat, pending, plugin, queue, ep>>

\* One DEL of the runtime for args.
RemoteDelete(args, address) ==
    \E h2 \in RetryHealth,
       addErr \in (IF cnsHealth = "down" THEN {"", "cannot create file"} ELSE {""}) :
      \E a1 \in {IF args = NilArgs THEN NoAnswer
                  ELSE CnsRelease("ReleaseIPs", IPConfigsRequest(args, <<>>),
                                  cnsAllocs, cnsHealth, cnsBatch, cnsStrict)},
         a2 \in {IF args = NilArgs THEN NoAnswer
                  ELSE CnsRelease("ReleaseIPAddress", IPConfigsRequest(args, <<>>),
                                  cnsAllocs, h2, cnsBatch, cnsStrict)} :
        \E out \in {Delete(address, args, a1, a2, addErr)} :
           DeleteStep(args, address, a1, a2, h2, addErr, out)

\* The watcher drains one file of the directory: it re-issues the release and
\* removes the file once the release succeeded.
WatcherDrain(pid) ==
    /\ deleteIDs[pid] # <<>>
    /\ \E r \in {CnsRelease(IF cnsBatch THEN "ReleaseIPs" ELSE "ReleaseIPAddress",
                            [PodInterfaceID |-> pid, InfraContainerID |-> deleteIDs[pid][1]],
                            cnsAllocs, cnsHealth, cnsBatch, cnsStrict)} :
         /\ r.err = Ok
         /\ cnsAllocs' = r.allocs
         /\ deleteIDs' = [deleteIDs EXCEPT ![pid] = <<>>]
    /\ last' = [NoOp EXCEPT !.op = "Drain", !.dirBefore = deleteIDs, !.heldBefore = cnsAllocs[pid]]
    /\ UNCHANGED <<cnsBatch, cnsStrict, cnsHealth, podState, ipamMode, options, nat, pending, plugin, queue, ep>>

\* the endpoint configurator runs one iptables command on the host's nat table
RunCmd(t, cmd) ==
    CASE cmd.op = "N" -> [t EXCEPT !.chains = @ \cup {cmd.rule.chain}]
      [] cmd.op = "A" -> [t EXCEPT !.rules = Append(@, cmd.rule)]
      [] cmd.op = "I" -> [t EXCEPT !.rules = <<cmd.rule>> \o @]

RECURSIVE RunCmds(_, _)
RunCmds(t, cmds) == IF cmds = <<>> THEN t ELSE RunCmds(RunCmd(t, Head(cmds)), Tail(cmds))

\* Endpoint creation executes the commands the last Add left in the options map.
ExecuteIPTables ==
    /\ pending # <<>>
    /\ nat' = RunCmds(nat, pending)
    /\ pending' = <<>>
    /\ UNCHANGED <<cnsBatch, cnsStrict, cnsHealth, cnsAllocs, deleteIDs, podState, ipamMode, options, last, plugin, queue, ep>>

\* the backend becomes unreachable or starts failing; it comes back
CnsFail ==
    /\ \E h \in {"down", "faulty"} : h # cnsHealth /\ cnsHealth' = h
    /\ UNCHANGED <<cnsBatch, cnsStrict, cnsAllocs, deleteIDs, podState, ipamMode, options, nat, pending, last, plugin, queue, ep>>

CnsRecover ==
    /\ cnsHealth # "up"
    /\ cnsHealth' = "up"
    /\ UNCHANGED <<cnsBatch, cnsStrict, cnsAllocs, deleteIDs, podState, ipamMode, options, nat, pending, last, plugin, queue, ep>>

Next ==
    \/ \E args \in CmdArgs \cup {NilArgs} : RemoteAdd(args, AllocPool)
    \/ \E args \in CmdArgs \cup {NilArgs}, address \in Addresses : RemoteDelete(args, address)
    \/ \E pid \in PodInterfaceIDs : WatcherDrain(pid)
    \/ CnsFail
    \/ CnsRecover

Spec == Init /\ [][Next]_vars

\* The watcher's drain runs again and again while a file is left, and the backend
\* does not stay unreachable for ever.
LiveSpec ==
    /\ Init
    /\ [][Next]_vars
    /\ \A pid \in PodInterfaceIDs : SF_vars(WatcherDrain(pid))
    /\ WF_vars(CnsRecover)

\* ------------------------------------------------------------------ Add on any response

\* the kinds of allocation a response is built from
InfoTemplates ==
    {DefaultV4, DefaultV4NoGateway, DefaultV6, SecondaryNIC, SecondaryDefaultNIC, SecondaryBadMAC}

\* every well-typed pod-ip-info list of up to MaxInfos allocations
Responses == UNION {[1..n -> InfoTemplates] : n \in 0..MaxInfos}

TheArgs == [ContainerID |-> "c1", IfName |-> "eth0"]

InitAdd ==
    /\ cnsBatch \in BOOLEAN
    /\ cnsStrict = FALSE
    /\ cnsHealth = "up"
    /\ cnsAllocs = [p \in PodInterfaceIDs |-> <<>>]
    /\ deleteIDs = [p \in PodInterfaceIDs |-> <<>>]
    /\ podState = [p \in PodInterfaceIDs |-> "new"]
    /\ ipamMode \in IpamModes
    /\ options = EmptyOptions
    /\ nat = [chains |-> {Postrouting}, rules |-> <<>>]
    /\ pending = <<>>
    /\ last = NoOp
    /\ plugin = NoPlugin
    /\ queue = NoQueue
    /\ ep = Endpoint(FALSE)

NextAdd ==
    \/ RemoteAdd(TheArgs, Responses)
    \/ RemoteDelete(TheArgs, NilIPNet)
    \/ ExecuteIPTables

\* One pod, whose ADD the backend may answer with any response.
AddSpec == InitAdd /\ [][NextAdd]_vars

\* ------------------------------------------------------------------ Add on routes, gateways, families

MaxRoutes == 2

\* the routes a backend may send: v4 and v6 ones, one whose gateway is of the other
\* family, and ones whose destination, gateway or both do not parse
RouteEntries ==
    {Route(Cidr("10.1.0.0", 16), "10.1.2.1"),
     Route(Cidr("fd11::", 64), "fd11::1"),
     Route(Cidr("10.1.0.0", 16), "fd11::1"),
     Route(Cidr("bad-dst", 16), "10.1.2.1"),
     Route(Cidr("10.1.0.0", 16), "bad-gw"),
     Route(Cidr("worse-dst", 16), "worse-gw")}

RouteLists == UNION {[1..n -> RouteEntries] : n \in 0..MaxRoutes}

\* the allocation info with the host's primary IP and gateway as given
WithHost(info, hostPrimaryIP, hostGateway) ==
    [info EXCEPT !.hostPrimaryIP = hostPrimaryIP, !.hostGateway = hostGateway]

\* responses of a backend whose host addresses do not parse: the primary IP, the
\* gateway or both; the host is one, so every allocation carries the same ones
BadHostResponses ==
    {<<WithHost(DefaultV4, "bad-host", "10.240.0.1")>>,
     <<WithHost(DefaultV4, "10.240.0.4", "bad-gw")>>,
     <<WithHost(DefaultV6, "bad-host", "bad-gw")>>,
     <<WithHost(DefaultV4, "10.240.0.4", "bad-gw"), WithHost(DefaultV6, "10.240.0.4", "bad-gw")>>,
     <<WithHost(SecondaryNIC, "bad-host", "10.240.0.1"), WithHost(DefaultV4, "bad-host", "10.240.0.1")>>}

\* responses that differ in the routes of the default or of a secondary allocation,
\* in the gateway of the default allocations, and in the families of the addresses
AllocResponses ==
    {<<WithRoutes(DefaultV4, rs)>> : rs \in RouteLists}
      \cup {<<DefaultV4, WithRoutes(SecondaryNIC, rs)>> : rs \in RouteLists}
      \cup {<<WithRoutes(DefaultV4, rs), DefaultV6>> : rs \in RouteLists}
      \cup {<<DefaultV4NoGateway>>, <<DefaultV6NoGateway>>,
            <<DefaultV4, DefaultV6NoGateway>>, <<DefaultV4NoGateway, DefaultV6NoGateway>>,
            <<DefaultV4, SecondaryV6>>, <<DefaultV6, SecondaryNIC>>, <<DefaultV6, SecondaryV6>>}
      \cup BadHostResponses

\* the nat table of a host: fresh; with the chain and its jump, left by another pod
\* network; with the DNS rule of the 10.1.2.0/24 network container as well
HostTables ==
    {[chains |-> {Postrouting}, rules |-> <<>>],
     [chains |-> {Postrouting, Swift}, rules |-> <<Rule(Postrouting, NoMatch, JumpTo(Swift))>>],
     [chains |-> {Postrouting, Swift},
      rules |-> <<Rule(Swift, Match([IP |-> V4(10, 1, 2, 0), Mask |-> 24], "AzureDNS", "udp", 53),
                       SnatTo("10.1.2.2")),
                  Rule(Postrouting, NoMatch, JumpTo(Swift))>>]}

InitAlloc ==
    /\ cnsBatch \in BOOLEAN
    /\ cnsStrict = FALSE
    /\ cnsHealth = "up"
    /\ cnsAllocs = [p \in PodInterfaceIDs |-> <<>>]
    /\ deleteIDs = [p \in PodInterfaceIDs |-> <<>>]
    /\ podState = [p \in PodInterfaceIDs |-> "new"]
    /\ ipamMode \in IpamModes
    /\ options = EmptyOptions
    /\ nat \in HostTables
    /\ pending = <<>>
    /\ last = NoOp
    /\ plugin = NoPlugin
    /\ queue = NoQueue
    /\ ep = Endpoint(FALSE)

NextAlloc ==
    \/ RemoteAdd(TheArgs, AllocResponses)
    \/ ExecuteIPTables

\* One pod on a host whose nat table may hold rules already; the backend answers
\* its ADD with one of AllocResponses.
AllocSpec == InitAlloc /\ [][NextAlloc]_vars

\* ------------------------------------------------------------------ Add, Delete and the host's rules

InitHost ==
    /\ cnsBatch \in BOOLEAN
    /\ cnsStrict \in BOOLEAN
    /\ cnsHealth = "up"
    /\ cnsAllocs = [p \in PodInterfaceIDs |-> <<>>]
    /\ deleteIDs = [p \in PodInterfaceIDs |-> <<>>]
    /\ podState = [p \in PodInterfaceIDs |-> "new"]
    /\ ipamMode = ""
    /\ options = EmptyOptions
    /\ nat \in HostTables
    /\ pending = <<>>
    /\ last = NoOp
    /\ plugin = NoPlugin
    /\ queue = NoQueue
    /\ ep = Endpoint(FALSE)

NextHost ==
    \/ RemoteAdd(TheArgs, AllocPool)
    \/ \E address \in Addresses : RemoteDelete(TheArgs, address)
    \/ ExecuteIPTables
    \/ CnsFail
    \/ CnsRecover

\* One pod on a host with a nat table: its ADD leaves commands that endpoint
\* creation executes, its DEL goes to a backend that may be down or failing.
HostSpec == InitHost /\ [][NextHost]_vars

\* ------------------------------------------------------------------ ADDs of several pods side by side

\* what the backend allocates to the pods of one network container: addresses of
\* the nc subnet 10.1.2.0/24, with the nc primary IP 10.1.2.2
PodPool ==
    {<<DefaultV4>>,
     <<PodIpInfo("10.1.2.4", 32, 24, "10.1.2.2", "10.1.2.1", Default, "", FALSE, <<>>)>>}

\* The ADD of one pod while the ADDs of other pods are under way: the invoker's Add
\* checks the host's nat table as it is now; the commands it leaves in the options
\* map wait for this pod's endpoint creation to execute them.
ParallelAdd(args) ==
    /\ podState[GetEndpointID(args)] = "new"
    /\ \E pick \in PodPool :
         \E a1 \in {CnsRequest("RequestIPs", IPConfigsRequest(args, <<>>),
                               cnsAllocs, cnsHealth, cnsBatch, pick)},
            a2 \in {CnsRequest("RequestIPAddress", IPConfigsRequest(args, <<>>),
                               cnsAllocs, cnsHealth, cnsBatch, FirstOf(pick))} :
           \E out \in {Add(args, EmptyOptions, ipamMode, nat, a1, Single(a2))} :
              /\ cnsAllocs' = AllocsAfter(Len(out.calls), a1, a2)
              /\ podState' = IF out.err = NoErr
                             THEN [podState EXCEPT ![GetEndpointID(args)] = "added"] ELSE podState
              /\ options' = out.options
              /\ queue' = [queue EXCEPT ![GetEndpointID(args)] =
                              IF out.err = NoErr /\ out.options.IPTablesKey # <<>>
                              THEN out.options.IPTablesKey[1] ELSE <<>>]
              /\ last' = [NoOp EXCEPT !.op = "Add", !.args = args,
                                      !.calls = out.calls, !.err = out.err, !.result = out.result,
                                      !.response = IF Len(out.calls) = 1 THEN a1.PodIPInfo
                                                   ELSE a2.PodIPInfo,
                                      !.dirBefore = deleteIDs,
                                      !.heldBefore = cnsAllocs[GetEndpointID(args)],
                                      !.stateBefore = podState[GetEndpointID(args)]]
              /\ UNCHANGED <<cnsBatch, cnsStrict, cnsHealth, deleteIDs, ipamMode, nat, pending, plugin, ep>>

\* Endpoint creation of one pod executes the next of the commands its ADD left.
ExecuteNext(pid) ==
    /\ queue[pid] # <<>>
    /\ nat' = RunCmd(nat, Head(queue[pid]))
    /\ queue' = [queue EXCEPT ![pid] = Tail(@)]
    /\ UNCHANGED <<cnsBatch, cnsStrict, cnsHealth, cnsAllocs, deleteIDs, podState, ipamMode,
                   options, pending, last, plugin, ep>>

InitParallel ==
    /\ cnsBatch \in BOOLEAN
    /\ cnsStrict = FALSE
    /\ cnsHealth = "up"
    /\ cnsAllocs = [p \in PodInterfaceIDs |-> <<>>]
    /\ deleteIDs = [p \in PodInterfaceIDs |-> <<>>]
    /\ podState = [p \in PodInterfaceIDs |-> "new"]
    /\ ipamMode = ""
    /\ options = EmptyOptions
    /\ nat \in HostTables
    /\ pending = <<>>
    /\ last = NoOp
    /\ plugin = NoPlugin
    /\ queue = NoQueue
    /\ ep = Endpoint(FALSE)

NextParallel ==
    \/ \E args \in CmdArgs : ParallelAdd(args)
    \/ \E pid \in PodInterfaceIDs : ExecuteNext(pid)

\* Two pods of one network container scheduled on the node at once: each pod's ADD
\* and the execution of its commands interleave with the other pod's.
ParallelSpec == InitParallel /\ [][NextParallel]_vars

\* ------------------------------------------------------------------ Add through either adapter

\* what the plugins of the model have to give: nothing, one address, two addresses
V4Results ==
    {<<>>, getSingleResult("10.0.0.1", 24),
     getSingleResult("10.0.0.1", 24) \o getSingleResult("10.0.0.2", 24)}

V6Results == {<<>>, getSingleResult("2001:0db8:abcd:0015::0", 64)}

\* the plugins of the tests and their like: with results or without, and answering
\* an add or a delete with an error or not
MockPlugins ==
    {MockPlugin(r4, r6, e4, e6, ed) :
        r4 \in V4Results, r6 \in V6Results,
        e4 \in {"", "test error", ErrNoAvailableAddressPools},
        e6 \in {"", "test v6 error"},
        ed \in {"", "test delete error"}}

\* the subnet prefix the caller hands to Add: none, or the v4 subnet of the network
SubnetPrefixes == {NilIPNet, getCIDRNotationForAddress("10.0.0.0", 24)}

\* One ADD of the runtime through the Local adapter: AzureIPAMInvoker.Add on the
\* plugin as it is now. A call of the mock past its results does not return.
LocalAdd(args) ==
    \E ipv6Mode \in IPV6Modes, subnetPrefix \in SubnetPrefixes :
      \E v4 \in {DelegateAdd(plugin, NetworkConfig(ipv6Mode).IPAM.Type)} :
        \E v6 \in {DelegateAdd(v4.d, ipamV6)} :
          \E out \in {AzureAdd(NetworkConfig(ipv6Mode), args, subnetPrefix, v4, v6,
                               DelegateDel(v4.d, NetworkConfig(ipv6Mode).IPAM.Type))} :
            /\ \A i \in 1..Len(out.calls) : out.calls[i].err # IndexPanic
            /\ plugin' = out.d
            /\ options' = EmptyOptions
            /\ pending' = <<>>
            /\ last' = [NoOp EXCEPT !.op = "LocalAdd", !.args = args, !.ipv6Mode = ipv6Mode,
                                    !.calls = out.calls, !.err = out.err, !.result = out.result]
            /\ UNCHANGED <<cnsBatch, cnsStrict, cnsHealth, cnsAllocs, deleteIDs, podState, ipamMode, nat, queue, ep>>

\* the address a Local Delete may be given: none, a v4 one or a v6 one
LocalAddresses ==
    {NilIPNet, getCIDRNotationForAddress("10.0.0.4", 24),
     getCIDRNotationForAddress("2001:0db8:abcd:0015::0", 64)}

\* One DEL of the runtime through the Local adapter: AzureIPAMInvoker.Delete on the
\* plugin as it is now.
LocalDelete(args, address) ==
    \E out \in {AzureDelete(address, NetworkConfig(""), args,
                            DelegateDel(plugin, NetworkConfig("").IPAM.Type),
                            DelegateDel(plugin, ipamV6))} :
      /\ last' = [NoOp EXCEPT !.op = "LocalDelete", !.args = args, !.address = address,
                              !.calls = out.calls, !.err = out.err]
      /\ UNCHANGED <<cnsBatch, cnsStrict, cnsHealth, cnsAllocs, deleteIDs, podState, ipamMode,
                     options, nat, pending, plugin, queue, ep>>

InitFacade ==
    /\ cnsBatch = TRUE
    /\ cnsStrict = FALSE
    /\ cnsHealth = "up"
    /\ cnsAllocs = [p \in PodInterfaceIDs |-> <<>>]
    /\ deleteIDs = [p \in PodInterfaceIDs |-> <<>>]
    /\ podState = [p \in PodInterfaceIDs |-> "new"]
    /\ ipamMode = ""
    /\ options = EmptyOptions
    /\ nat = [chains |-> {Postrouting}, rules |-> <<>>]
    /\ pending = <<>>
    /\ last = NoOp
    /\ plugin \in MockPlugins
    /\ queue = NoQueue
    /\ ep = Endpoint(FALSE)

NextFacade ==
    \/ \E args \in {NilArgs, TheArgs} : LocalAdd(args)
    \/ \E args \in {NilArgs, TheArgs} : RemoteAdd(args, AllocPool)
    \/ \E args \in {NilArgs, TheArgs}, address \in LocalAddresses : LocalDelete(args, address)

\* One pod whose ADDs go through the Local adapter, which drives a plugin, or
\* through the Remote one.
FacadeSpec == InitFacade /\ [][NextFacade]_vars

\* ------------------------------------------------------------------ the secondary endpoint client at work

\* the recorded routes of one interface the client still configures at
MaxRecorded == 2

\* the routes an endpoint info may carry: these, or the first of them, or none
epRoutes ==
    <<RouteInfo(ParseCIDR("10.5.0.0", 16).ipnet, NilIP, ""),
      RouteInfo(ParseCIDR("10.6.0.0", 16).ipnet, NilIP, "")>>

EpAddEndpoints(epInfo) ==
    /\ ep' = AddEndpoints(ep, epInfo, GetNetworkInterfaceByMac(epInfo.MacAddress))
    /\ UNCHANGED <<cnsBatch, cnsStrict, cnsHealth, cnsAllocs, deleteIDs, podState, ipamMode,
                   options, nat, pending, last, plugin, queue>>

EpConfigure(epInfo, assignErr, f1, f2, f3) ==
    /\ \A n \in IfNames :
         IF ep.SecondaryInterfaces[n] = <<>>
         THEN TRUE
         ELSE Len(ep.SecondaryInterfaces[n][1].Routes) < MaxRecorded
    /\ ep' = ConfigureContainerInterfacesAndRoutes(ep, epInfo, assignErr, f1, f2, f3)
    /\ UNCHANGED <<cnsBatch, cnsStrict, cnsHealth, cnsAllocs, deleteIDs, podState, ipamMode,
                   options, nat, pending, last, plugin, queue>>

NsOpenNamespace(ns) ==
    \E out \in {OpenNamespace(ns)} :
      /\ ep' = [ep EXCEPT !.call = ClientCall("OpenNamespace", NoEpInfo, out.err, out.ns)]
      /\ UNCHANGED <<cnsBatch, cnsStrict, cnsHealth, cnsAllocs, deleteIDs, podState, ipamMode,
                     options, nat, pending, last, plugin, queue>>

NsGetCurrentThreadNamespace ==
    \E out \in {GetCurrentThreadNamespace} :
      /\ ep' = [ep EXCEPT !.call = ClientCall("GetCurrentThreadNamespace", NoEpInfo, out.err, out.ns)]
      /\ UNCHANGED <<cnsBatch, cnsStrict, cnsHealth, cnsAllocs, deleteIDs, podState, ipamMode,
                     options, nat, pending, last, plugin, queue>>

InitEndpoint ==
    /\ cnsBatch = TRUE
    /\ cnsStrict = FALSE
    /\ cnsHealth = "up"
    /\ cnsAllocs = [p \in PodInterfaceIDs |-> <<>>]
    /\ deleteIDs = [p \in PodInterfaceIDs |-> <<>>]
    /\ podState = [p \in PodInterfaceIDs |-> "new"]
    /\ ipamMode = ""
    /\ options = EmptyOptions
    /\ nat = [chains |-> {Postrouting}, rules |-> <<>>]
    /\ pending = <<>>
    /\ last = NoOp
    /\ plugin = NoPlugin
    /\ queue = NoQueue
    /\ ep \in {Endpoint(FALSE), Endpoint(TRUE)}

NextEndpoint ==
    \/ \E mac \in {hwAddr, "00:11:22:33:44:55"}, d \in BOOLEAN :
         EpAddEndpoints([NoEpInfo EXCEPT !.MacAddress = mac,
                                         !.IPAddresses = <<[IP |-> ParseIP("10.5.0.7"), Mask |-> 16]>>,
                                         !.NICType = "delegated", !.IsDefaultInterface = d])
    \/ \E n \in IfNames, d \in BOOLEAN, k \in 0..Len(epRoutes),
          assignErr \in {"", "netlink fail"}, f1 \in 0..1, f2 \in 0..1, f3 \in 0..2 :
         EpConfigure([NoEpInfo EXCEPT !.MacAddress = hwAddr, !.IfName = n,
                                      !.IPAddresses = <<[IP |-> ParseIP("10.5.0.7"), Mask |-> 16]>>,
                                      !.NICType = "delegated", !.IsDefaultInterface = d,
                                      !.Routes = SubSeq(epRoutes, 1, k)],
                     assignErr, f1, f2, f3)
    \/ \E ns \in {"", "/var/run/netns/pod"} : NsOpenNamespace(ns)
    \/ NsGetCurrentThreadNamespace

\* An endpoint whose secondary interfaces are registered and configured in any
\* order, by the current client or the older one, with a netlink that may fail at
\* any step, next to the calls of the namespace client.
EndpointSpec == InitEndpoint /\ [][NextEndpoint]_vars

\* ------------------------------------------------------------------ properties

\* the pod interface the last operation was about
LastPid == GetEndpointID(last.args)

\* the last operation met answer e on one of its calls
Met(e) == \E i \in 1..Len(last.calls) : last.calls[i].err = e

AddOK == last.op = "Add" /\ last.err = NoErr

\* the allocations of the response Add processed that are (not) of secondary type
OfType(secondary) ==
    {i \in 1..Len(last.response) : (last.response[i].addressType = Secondary) = secondary}

\* C1: Add issues RequestIPs first; RequestIPAddress is issued only as the second
\* call, only after RequestIPs answered UnsupportedAPI, and at most once; when it
\* succeeds, Add returns what it returns for a batch response holding that one
\* allocation.
C1_BatchFirstThenSingleton ==
    last.op = "Add" =>
      /\ last.args # NilArgs => last.calls # <<>>
      /\ Len(last.calls) <= 2
      /\ last.calls # <<>> => last.calls[1].api = "RequestIPs"
      /\ \A i \in 1..Len(last.calls) :
           last.calls[i].api = "RequestIPAddress" => i = 2 /\ last.calls[1].err = UnsupportedAPI
      /\ (Len(last.calls) = 2 /\ last.calls[2].err = Ok) =>
           /\ Len(last.response) = 1
           /\ \E asBatch \in {Add(last.args, EmptyOptions, ipamMode, nat,
                                  [err |-> Ok, PodIPInfo |-> last.response],
                                  [err |-> OtherFailure, PodIpInfo |-> NoInfo])} :
                /\ last.result = asBatch.result
                /\ last.err = asBatch.err
                /\ options = asBatch.options

\* an Add that fell back to the singleton API and succeeded
C1_Witness ==
    /\ AddOK
    /\ Len(last.calls) = 2
    /\ last.calls[1].err = UnsupportedAPI
    /\ last.calls[2].api = "RequestIPAddress"
    /\ last.calls[2].err = Ok

\* C2: when ReleaseIPs fails with ConnectionFailure and the enqueue succeeds, Delete
\* returns no error and the directory is the one before plus the file named by the
\* pod-interface-id holding the container id: at most one file more.
C2_ConnectionFailureEnqueues ==
    ( /\ last.op = "Delete"
      /\ last.calls # <<>>
      /\ last.calls[1].api = "ReleaseIPs"
      /\ last.calls[1].err = ConnectionFailure
      /\ last.addErr = "" ) =>
        /\ last.err = NoErr
        /\ last.enqueue = <<[name |-> LastPid, content |-> last.args.ContainerID]>>
        /\ deleteIDs = [last.dirBefore EXCEPT ![LastPid] = <<last.args.ContainerID>>]
        /\ Cardinality({q \in PodInterfaceIDs : deleteIDs[q] # <<>>})
             <= Cardinality({q \in PodInterfaceIDs : last.dirBefore[q] # <<>>}) + 1

\* a Delete that met the unreachable backend and left a new file
C2_Witness ==
    /\ last.op = "Delete"
    /\ last.calls # <<>>
    /\ last.calls[1].err = ConnectionFailure
    /\ last.err = NoErr
    /\ last.dirBefore[LastPid] = <<>>
    /\ deleteIDs[LastPid] = <<last.args.ContainerID>>

\* C3, as claimed: every ConnectionFailure a Delete meets, on the batch release or
\* on the singleton retry, ends in an enqueue and in success.
C3_EveryConnectionFailureEnqueues ==
    (last.op = "Delete" /\ Met(ConnectionFailure) /\ last.addErr = "") =>
        /\ last.err = NoErr
        /\ deleteIDs[LastPid] = <<last.args.ContainerID>>

\* C4: a batch release failing with another error than UnsupportedAPI and
\* ConnectionFailure makes Delete fail and enqueue nothing; the directory changes
\* only when a release met ConnectionFailure, and never when a release succeeded.
C4_OtherErrorFailsNoEnqueue ==
    last.op = "Delete" =>
      /\ (last.calls # <<>> /\ last.calls[1].err \notin {Ok, UnsupportedAPI, ConnectionFailure}) =>
           /\ last.err # NoErr
           /\ last.err.cause = last.calls[1].err
           /\ last.enqueue = <<>>
           /\ deleteIDs = last.dirBefore
      /\ (deleteIDs # last.dirBefore \/ last.enqueue # <<>>) => Met(ConnectionFailure)
      /\ Met(Ok) => deleteIDs = last.dirBefore /\ last.enqueue = <<>>

\* a Delete whose batch release failed with some other error
C4_Witness ==
    /\ last.op = "Delete"
    /\ last.calls # <<>>
    /\ last.calls[1].err = OtherFailure
    /\ last.err # NoErr

\* C5: once a Delete for a pod interface returned success, the backend eventually
\* holds no allocation for it (the drain being scheduled and the backend coming back).
C5_DeletedEventuallyReleased ==
    \A pid \in PodInterfaceIDs : (podState[pid] = "deleted") ~> (cnsAllocs[pid] = <<>>)

\* a Delete returned success while the allocation is still held: the release waits
\* in the directory
C5_Witness ==
    \E pid \in PodInterfaceIDs :
        /\ podState[pid] = "deleted"
        /\ cnsAllocs[pid] # <<>>
        /\ deleteIDs[pid] # <<>>

\* C6: a Delete that returned success without meeting an unreachable backend leaves
\* no allocation for its pod interface, on a batch and on a singleton-only backend.
C6_AddThenDeleteLeavesNothing ==
    ( /\ last.op = "Delete"
      /\ last.args # NilArgs
      /\ last.err = NoErr
      /\ ~Met(ConnectionFailure) ) => cnsAllocs[LastPid] = <<>>

\* a successful Add followed by a Delete that released through the singleton API
C6_Witness ==
    /\ last.op = "Delete"
    /\ last.err = NoErr
    /\ last.stateBefore = "added"
    /\ last.heldBefore # <<>>
    /\ Len(last.calls) = 2
    /\ last.calls[2].err = Ok
    /\ cnsAllocs[LastPid] = <<>>

\* the last operation is a Delete repeated for a pod interface whose allocation is
\* already released
RepeatedDelete ==
    /\ last.op = "Delete"
    /\ last.args # NilArgs
    /\ last.stateBefore = "deleted"
    /\ last.heldBefore = <<>>

\* C7, as claimed: a repeated Delete that the backend answers with "not found"
\* returns no error.
C7_NotFoundIsNoError == (RepeatedDelete /\ Met(NotFound)) => last.err = NoErr

\* C8, as claimed: a successful Add on N allocations returns N-1 secondary results.
C8_SecondariesAreAllButOne ==
    AddOK => Len(last.result.cniResults) = Len(last.response) - 1

\* C8, amended: a successful Add returns one default result, holding one IP config
\* per default-type allocation (at least one), and one secondary result per
\* secondary-type allocation.
C8_OneResultPerSecondary ==
    AddOK =>
      /\ last.result.defaultCniResult.ipResult.nonNil
      /\ Cardinality(OfType(FALSE)) >= 1
      /\ Len(last.result.defaultCniResult.ipResult.IPs) = Cardinality(OfType(FALSE))
      /\ Len(last.result.cniResults) = Cardinality(OfType(TRUE))

\* a successful Add on two default-type allocations and a secondary one
C8_Witness ==
    /\ AddOK
    /\ Cardinality(OfType(FALSE)) = 2
    /\ Cardinality(OfType(TRUE)) = 1

\* the entries of the last Add's result that are marked as the default interface
MarkedSecondaries ==
    {i \in 1..Len(last.result.cniResults) : last.result.cniResults[i].isDefaultInterface}

\* C9, as claimed: exactly one entry of a successful Add's result is marked default,
\* and it is the default result when no allocation carries the flag.
C9_ExactlyOneDefault ==
    AddOK =>
      /\ Cardinality(MarkedSecondaries)
           + (IF last.result.defaultCniResult.isDefaultInterface THEN 1 ELSE 0) = 1
      /\ (\A i \in 1..Len(last.response) : ~last.response[i].isDefaultInterface)
           => last.result.defaultCniResult.isDefaultInterface

\* C10: after a successful Add the default result is marked default if and only if
\* no secondary allocation of the response claimed the default interface.
C10_DefaultFlagIsNoSecondaryClaim ==
    AddOK =>
      (last.result.defaultCniResult.isDefaultInterface
         <=> ~(\E i \in OfType(TRUE) : last.response[i].isDefaultInterface))

\* a successful Add on a default-type allocation and a secondary one that claims
\* the default interface: the default result is not marked
C10_Witness ==
    /\ AddOK
    /\ OfType(FALSE) # {}
    /\ \E i \in OfType(TRUE) : last.response[i].isDefaultInterface
    /\ ~last.result.defaultCniResult.isDefaultInterface

\* the host's nat table is still the one the last Add checked: its commands, if it
\* wrote any, are not executed yet
NatAsChecked == options.IPTablesKey = <<>> \/ pending = options.IPTablesKey[1]

\* the first default-type allocation of the response the last Add processed
FirstDefault ==
    last.response[CHOOSE i \in OfType(FALSE) : \A j \in OfType(FALSE) : i <= j]

\* C11, as claimed: after a successful Add on a response with more than one
\* default-type allocation the options map is the one the first default allocation
\* alone gives: the later ones change neither snat-ip nor routes nor the commands.
C11_FirstDefaultOwnsOptions ==
    (AddOK /\ Cardinality(OfType(FALSE)) > 1 /\ NatAsChecked) =>
        options = processResponse(<<FirstDefault>>, EmptyOptions, ipamMode, nat).options

\* the network container subnet of a default allocation
NcSubnet(info) == ParseCIDR(info.podIPConfig.IPAddress, info.ncSubnetPrefix).ipnet

\* C12: on every nat table the host can have, Host Programming for a default
\* allocation, its commands executed, and then Host Programming again with the same
\* inputs, its commands executed: the second run emits no command, writes the same
\* route, and leaves the nat table as the first run left it.
C12_HostProgrammingIdempotent ==
    \A info \in {DefaultV4, DefaultV6} :
        LET once == setHostOptions(NcSubnet(info), EmptyOptions, info, nat)
            t1 == RunCmds(nat, once.options.IPTablesKey[1])
            twice == setHostOptions(NcSubnet(info), EmptyOptions, info, t1)
            t2 == RunCmds(t1, twice.options.IPTablesKey[1])
        IN  /\ once.err = NoErr
            /\ twice.err = NoErr
            /\ twice.options.IPTablesKey = << <<>> >>
            /\ twice.options.RoutesKey = once.options.RoutesKey
            /\ t2 = t1

\* an Add repeated after its commands were executed: it wrote an empty command list
C12_Witness ==
    /\ AddOK
    /\ ~IsOverlay(ipamMode)
    /\ last.heldBefore = last.response
    /\ options.IPTablesKey = << <<>> >>
    /\ Swift \in nat.chains
    /\ Len(nat.rules) >= 4

\* the last default-type allocation of the response the last Add processed
LastDefault ==
    last.response[CHOOSE i \in OfType(FALSE) : \A j \in OfType(FALSE) : j <= i]

\* the exact rule is not in the host's nat table
Absent(rule) == \A i \in 1..Len(nat.rules) : nat.rules[i] # rule

\* the five commands of Host Programming for a default allocation, in their order,
\* each with whether its chain or rule is absent from the host's nat table
FiveCommands(info) ==
    << [cmd |-> [op |-> "N", rule |-> Rule(Swift, NoMatch, JumpTo(""))],
        absent |-> Swift \notin nat.chains],
       [cmd |-> [op |-> "A", rule |-> Rule(Postrouting, NoMatch, JumpTo(Swift))],
        absent |-> Absent(Rule(Postrouting, NoMatch, JumpTo(Swift)))],
       [cmd |-> [op |-> "I",
                 rule |-> Rule(Swift, Match(NcSubnet(info), "AzureDNS", "udp", 53),
                               SnatTo(info.ncPrimaryIP))],
        absent |-> Absent(Rule(Swift, Match(NcSubnet(info), "AzureDNS", "udp", 53),
                               SnatTo(info.ncPrimaryIP)))],
       [cmd |-> [op |-> "I",
                 rule |-> Rule(Swift, Match(NcSubnet(info), "AzureDNS", "tcp", 53),
                               SnatTo(info.ncPrimaryIP))],
        absent |-> Absent(Rule(Swift, Match(NcSubnet(info), "AzureDNS", "tcp", 53),
                               SnatTo(info.ncPrimaryIP)))],
       [cmd |-> [op |-> "I",
                 rule |-> Rule(Swift, Match(NcSubnet(info), "AzureIMDS", "tcp", 80),
                               SnatTo(info.hostPrimaryIP))],
        absent |-> Absent(Rule(Swift, Match(NcSubnet(info), "AzureIMDS", "tcp", 80),
                               SnatTo(info.hostPrimaryIP)))] >>

\* the commands among the five whose chain or rule is absent, in their order
AbsentCommands(info) ==
    LET kept == SelectSeq(FiveCommands(info), LAMBDA e : e.absent)
    IN  [i \in 1..Len(kept) |-> kept[i].cmd]

\* C13: the command list a successful Add in a non-overlay mode leaves in the
\* options map holds, of the five commands of Host Programming (create chain, append
\* jump, insert DNS-UDP, DNS-TCP and IMDS SNAT), exactly those whose chain or exact
\* rule is absent from the host's nat table, in that order.
C13_CheckThenInstall ==
    (AddOK /\ ~IsOverlay(ipamMode) /\ NatAsChecked) =>
        /\ options.IPTablesKey # <<>>
        /\ options.IPTablesKey[1] = AbsentCommands(LastDefault)

\* an Add on a host that holds some of the five already: it wrote only the others
C13_Witness ==
    /\ AddOK
    /\ ~IsOverlay(ipamMode)
    /\ NatAsChecked
    /\ Len(options.IPTablesKey[1]) \in 1..4
    /\ \E i \in 1..5 : ~FiveCommands(LastDefault)[i].absent

\* C14: a successful Add writes neither the routes key nor the iptables-commands
\* key in the modes v4overlay, dualStackOverlay and overlay, and writes both in
\* every other mode (a successful Add has processed a default allocation).
C14_HostProgrammingUnlessOverlay ==
    AddOK =>
      /\ OfType(FALSE) # {}
      /\ ipamMode \in {"v4overlay", "dualStackOverlay", "overlay"} =>
           options.RoutesKey = <<>> /\ options.IPTablesKey = <<>>
      /\ ipamMode \notin {"v4overlay", "dualStackOverlay", "overlay"} =>
           options.RoutesKey # <<>> /\ options.IPTablesKey # <<>>

\* a successful Add in an overlay mode: the SNAT key is written, the other two not
C14_Witness ==
    /\ AddOK
    /\ ipamMode = "dualStackOverlay"
    /\ options.SNATIPKey # <<>>
    /\ options.RoutesKey = <<>>
    /\ options.IPTablesKey = <<>>

\* the last Add got a response from the backend and processed it
Processed ==
    /\ last.op = "Add"
    /\ last.calls # <<>>
    /\ last.calls[Len(last.calls)].err = Ok

\* the default-type allocations of the response whose nc gateway is empty
NoGateway == {i \in OfType(FALSE) : last.response[i].ncGatewayIPAddress = ""}

\* the IP config the i-th allocation of the response, a default-type one, gave
ConfigOf(i) ==
    last.result.defaultCniResult.ipResult.IPs[Cardinality({j \in OfType(FALSE) : j <= i})]

\* the first usable address of a network: the one after its network address
FirstUsable(net) == [net.IP EXCEPT !.b[Len(net.IP.b)] = @ + 1]

\* C15: an Add that succeeds on a default allocation with an empty nc gateway runs
\* in an overlay mode and gives its IP config the first usable address of the nc
\* subnet (v4 pod IP) or fe80::1234:5678:9abc (v6 pod IP) as gateway; in every other
\* mode an Add on a response with such an allocation fails and returns no result,
\* with the invalid-argument error if that allocation comes first.
C15_GatewaySynthesizedInOverlayOnly ==
    /\ AddOK =>
         \A i \in NoGateway :
            /\ ipamMode \in {"v4overlay", "dualStackOverlay", "overlay"}
            /\ ConfigOf(i).Gateway =
                 IF ParseIP(last.response[i].podIPConfig.IPAddress).fam = 4
                 THEN FirstUsable(NcSubnet(last.response[i]))
                 ELSE V6(<<65152, 0, 0, 0, 0, 4660, 22136, 39612>>)
    /\ (Processed /\ NoGateway # {}
          /\ ipamMode \notin {"v4overlay", "dualStackOverlay", "overlay"}) =>
         /\ last.err # NoErr
         /\ last.result = EmptyAddResult
         /\ 1 \in NoGateway => last.err.cause = errInvalidArgs

\* a successful Add on a v4 and a v6 default allocation, both without gateway
C15_Witness ==
    /\ AddOK
    /\ \E i, j \in NoGateway :
         /\ ConfigOf(i).Gateway = V4(10, 1, 2, 1)
         /\ ConfigOf(j).Gateway.fam = 6

\* the number of routes the backend supplied with the default-type allocations
RECURSIVE RoutesSupplied(_)
RoutesSupplied(infos) ==
    IF infos = <<>> THEN 0
    ELSE (IF Head(infos).addressType = Secondary THEN 0 ELSE Len(Head(infos).routes))
           + RoutesSupplied(Tail(infos))

\* the routes and the IP configs of the default result of the last Add
DefaultRoutes == last.result.defaultCniResult.ipResult.Routes

DefaultIPs == last.result.defaultCniResult.ipResult.IPs

\* a route to everything, of either family
IsDefaultRoute(r) ==
    \/ r.Dst = [IP |-> V4(0, 0, 0, 0), Mask |-> 0]
    \/ r.Dst = [IP |-> V6(<<0, 0, 0, 0, 0, 0, 0, 0>>), Mask |-> 0]

\* C16: after a successful Add, if the backend supplied no route with the
\* default-type allocations, the default result's routes are one default route per
\* default allocation in response order, 0.0.0.0/0 or ::/0 by the family of its
\* address, through its gateway; if it supplied some, the routes are as many as it
\* supplied and none is a default route (it supplies none): no default route is added.
C16_DefaultRoutesIfNoRoutes ==
    AddOK =>
      /\ RoutesSupplied(last.response) = 0 =>
           /\ Len(DefaultRoutes) = Len(DefaultIPs)
           /\ \A k \in 1..Len(DefaultIPs) :
                DefaultRoutes[k] =
                  [Dst |-> IF DefaultIPs[k].Address.IP.fam = 4
                           THEN [IP |-> V4(0, 0, 0, 0), Mask |-> 0]
                           ELSE [IP |-> V6(<<0, 0, 0, 0, 0, 0, 0, 0>>), Mask |-> 0],
                   GW |-> DefaultIPs[k].Gateway]
      /\ RoutesSupplied(last.response) > 0 =>
           /\ Len(DefaultRoutes) = RoutesSupplied(last.response)
           /\ \A k \in 1..Len(DefaultRoutes) : ~IsDefaultRoute(DefaultRoutes[k])

\* a successful Add on a v4 default allocation with a route and a v6 one without:
\* the default result has the supplied route and no default route
C16_Witness ==
    /\ AddOK
    /\ Len(DefaultIPs) = 2
    /\ RoutesSupplied(last.response) = 1
    /\ Len(DefaultRoutes) = 1
    /\ ~IsDefaultRoute(DefaultRoutes[1])

\* what a route entry's destination and gateway parse to
DstOf(r) == ParseCIDR(r.IPAddress.ip, r.IPAddress.len).ipnet

GwOf(r) == ParseIP(r.GatewayIPAddress)

\* the entry parses, and its gateway is of the family of its destination
Parses(r) == DstOf(r) # NilIPNet /\ GwOf(r) # NilIP

SameFamily(r) == DstOf(r).IP.fam = GwOf(r).fam

\* the routes of all the results of the last Add
ResultRoutes ==
    {DefaultRoutes[k] : k \in 1..Len(DefaultRoutes)}
      \cup UNION {{last.result.cniResults[i].ipResult.Routes[k] :
                     k \in 1..Len(last.result.cniResults[i].ipResult.Routes)} :
                  i \in 1..Len(last.result.cniResults)}

\* C17, as claimed: route translation succeeds on the lists whose entries parse to
\* a destination and a gateway of one family, an Add on a response with an entry
\* whose gateway is of the other family than its destination fails, and every route
\* of a returned result has a gateway of the family of its destination.
C17_RoutesOfOneFamily ==
    /\ \A i \in 1..Len(last.response) :
         (\A k \in 1..Len(last.response[i].routes) :
             Parses(last.response[i].routes[k]) /\ SameFamily(last.response[i].routes[k]))
           => getRoutes(last.response[i].routes).err = NoErr
    /\ (Processed /\ \E i \in 1..Len(last.response) : \E k \in 1..Len(last.response[i].routes) :
          Parses(last.response[i].routes[k]) /\ ~SameFamily(last.response[i].routes[k]))
         => last.err # NoErr
    /\ AddOK => \A r \in ResultRoutes : r.Dst.IP.fam = r.GW.fam

\* the allocation of the response that carries routes, and its first entry that
\* does not parse
WithBadRoute ==
    {i \in 1..Len(last.response) :
       \E k \in 1..Len(last.response[i].routes) : ~Parses(last.response[i].routes[k])}

FirstBad(routes) ==
    routes[CHOOSE k \in 1..Len(routes) :
             ~Parses(routes[k]) /\ \A j \in 1..(k - 1) : Parses(routes[j])]

\* the error that names the offending value of an entry: its destination if that
\* does not parse, else its gateway
NamesOffender(e, r) ==
    IF DstOf(r) = NilIPNet
    THEN e.text = "unable to parse destination" /\ e.cause = r.IPAddress.ip
    ELSE e.text = "unable to parse gateway" /\ e.cause = r.GatewayIPAddress

\* C18: route translation of a list with an entry that does not parse returns no
\* route and the error naming the first such entry's offending value, and the Add
\* that processed the response fails with that error and returns no result.
C18_FirstBadRouteFailsAdd ==
    \A i \in WithBadRoute :
        /\ getRoutes(last.response[i].routes).routes = <<>>
        /\ NamesOffender(getRoutes(last.response[i].routes).err,
                         FirstBad(last.response[i].routes))
        /\ Processed =>
             /\ last.err = getRoutes(last.response[i].routes).err
             /\ last.result = EmptyAddResult

\* an Add on a list of two entries that do not parse: it failed naming the first
C18_Witness ==
    /\ Processed
    /\ \E i \in WithBadRoute :
         /\ Len(last.response[i].routes) = 2
         /\ \A k \in 1..2 : ~Parses(last.response[i].routes[k])
         /\ last.response[i].routes[1] # last.response[i].routes[2]
         /\ last.err.cause = last.response[i].routes[1].IPAddress.ip

\* the allocations of the response whose pod address is an IPv6 one
V6Allocations ==
    {i \in 1..Len(last.response) : ParseIP(last.response[i].podIPConfig.IPAddress).fam = 6}

C20_IPv6IffAnyV6Address == AddOK => (last.result.ipv6Enabled <=> V6Allocations # {})

\* C20, amended: after a successful Add ipv6Enabled is true if and only if some
\* default-type allocation of the response has an IPv6 address; the addresses of
\* the secondary allocations do not count.
C20_IPv6IffDefaultV6Address ==
    AddOK => (last.result.ipv6Enabled <=> (\E i \in OfType(FALSE) : i \in V6Allocations))

\* a successful Add whose only IPv6 address is a secondary allocation's
C20_Witness ==
    /\ AddOK
    /\ V6Allocations # {}
    /\ V6Allocations \subseteq OfType(TRUE)
    /\ ~last.result.ipv6Enabled

\* the default-type allocations of the response whose pod address is an IPv4 one
V4Defaults == {i \in OfType(FALSE) : To4(ParseIP(last.response[i].podIPConfig.IPAddress)) # NilIP}

DefaultsOnly == SelectSeq(last.response, LAMBDA info : info.addressType # Secondary)

\* an options map a caller may hand to Add: the empty one, or one with entries
ReceivedOptions ==
    {EmptyOptions,
     [SNATIPKey |-> <<"10.9.9.9">>, RoutesKey |-> <<>>, IPTablesKey |-> <<<<"iptables -L">>>>]}

\* C22: the secondary allocations of a response write nothing to the options map.
\* An Add that processed a response holding only secondary allocations leaves the
\* map as it received it, whatever the map held; and after a successful Add the map
\* is the one the default-type allocations of the response alone give.
C22_SecondaryLeavesOptions ==
    /\ (Processed /\ OfType(FALSE) = {}) =>
          /\ options = EmptyOptions
          /\ \A opts \in ReceivedOptions :
                processResponse(last.response, opts, ipamMode, nat).options = opts
    /\ (AddOK /\ NatAsChecked) =>
          options = processResponse(DefaultsOnly, EmptyOptions, ipamMode, nat).options

C22_Witness ==
    /\ Processed
    /\ last.response = <<SecondaryNIC, SecondaryDefaultNIC>>
    /\ options = EmptyOptions

\* the step is an Add or a Delete with nil args
NilArgsStep == last' # last /\ last'.args = NilArgs /\ last'.op \in {"Add", "Delete"}

\* C23: an Add and a Delete with nil CNI args fail with the empty-args error and
\* touch nothing: no request reaches the backend, whose allocations stay as they
\* are, nothing is enqueued for the watcher, Add returns the empty result and
\* leaves the options map it received as it is, and Delete leaves the options alone.
C23_NilArgsFailFast ==
    [][NilArgsStep =>
         /\ last'.err = errEmptyCNIArgs
         /\ last'.calls = <<>>
         /\ last'.enqueue = <<>>
         /\ last'.result = EmptyAddResult
         /\ cnsAllocs' = cnsAllocs
         /\ deleteIDs' = deleteIDs
         /\ podState' = podState
         /\ last'.op = "Delete" => options' = options
         /\ last'.op = "Add" =>
               /\ options' = EmptyOptions
               /\ \A opts \in ReceivedOptions :
                     Add(NilArgs, opts, ipamMode, nat, NoAnswer, Single(NoAnswer)).options = opts]_vars

C23_Witness ==
    /\ last.op = "Delete"
    /\ last.args = NilArgs
    /\ last.address # NilIPNet
    /\ last.err = errEmptyCNIArgs
    /\ \E pid \in PodInterfaceIDs : cnsAllocs[pid] # <<>>
    /\ cnsHealth = "down"

\* the step is an Add whose batch request failed with another error than
\* UnsupportedAPI
BatchFailedStep ==
    /\ last' # last
    /\ last'.op = "Add"
    /\ last'.calls # <<>>
    /\ last'.calls[1].api = "RequestIPs"
    /\ last'.calls[1].err \notin {Ok, UnsupportedAPI}

\* C26: an Add whose batch request fails with any error but UnsupportedAPI, a
\* connection failure included, fails with that error wrapped and the empty result;
\* the batch request is the only call it makes, nothing is enqueued for the watcher,
\* whose directory stays as it is, and the options map is left as it was received.
C26_BatchErrorFailsAdd ==
    [][BatchFailedStep =>
         /\ last'.err = Wrap(last'.calls[1].err, "Failed to get IP address from CNS")
         /\ last'.result = EmptyAddResult
         /\ Len(last'.calls) = 1
         /\ last'.enqueue = <<>>
         /\ deleteIDs' = deleteIDs
         /\ options' = EmptyOptions
         /\ pending' = <<>>]_vars

C26_Witness ==
    /\ last.op = "Add"
    /\ Len(last.calls) = 1
    /\ last.calls[1].err = ConnectionFailure
    /\ last.err = Wrap(ConnectionFailure, "Failed to get IP address from CNS")
    /\ last.result = EmptyAddResult
    /\ deleteIDs[LastPid] = <<>>

\* C27, as claimed: every request a Delete sends to the backend, the batch release
\* and the singleton retry alike, names the textual form of the address Delete was
\* given in its desired addresses, and names no address when it was given none.
C27_DesiredAddressOnEveryRelease ==
    last.op = "Delete" =>
        \A i \in 1..Len(last.calls) :
            last.calls[i].req.DesiredIPAddresses =
                IF last.address # NilIPNet THEN <<IPString(last.address.IP)>> ELSE <<>>

\* the default-type allocations of the response whose host primary IP or host
\* gateway does not parse
BadHost ==
    {i \in OfType(FALSE) : \/ ParseIP(last.response[i].hostPrimaryIP) = NilIP
                           \/ ParseIP(last.response[i].hostGateway) = NilIP}

\* the error of setHostOptions on the allocation info
HostError(info) ==
    IF ParseIP(info.hostPrimaryIP) = NilIP
    THEN Err("Host IP address from response is invalid", info.hostPrimaryIP)
    ELSE Err("Host Gateway from response is invalid", info.hostGateway)

LocalOutcome(args, ipv6Mode, subnetPrefix) ==
    LET nwCfg == NetworkConfig(ipv6Mode)
        v4 == DelegateAdd(plugin, nwCfg.IPAM.Type)
        v6 == DelegateAdd(v4.d, ipamV6)
    IN  AzureAdd(nwCfg, args, subnetPrefix, v4, v6, DelegateDel(v4.d, nwCfg.IPAM.Type))

V4Succeeded == last.op = "LocalAdd" /\ plugin.errv4 = "" /\ plugin.resultsIPv4 # <<>>

\* the error the v4 and the v6 side of the plugin answer an add with ("": none)
V4Error ==
    IF plugin.errv4 # "" THEN plugin.errv4
    ELSE IF plugin.resultsIPv4 = <<>> THEN "no more ipv4 results in mock available" ELSE ""

V6Error ==
    IF plugin.errv6 # "" THEN plugin.errv6
    ELSE IF plugin.resultsIPv6 = <<>> THEN "no more ipv6 results in mock available" ELSE ""

\* the result the v4 side of the plugin gave last
V4Given == plugin.resultsIPv4[plugin.resultsIPv4Index]

\* C28: a Local Add with ipv6 mode set whose v4 plugin succeeds and whose v6 plugin
\* fails calls the v4 plugin, the v6 plugin and then the delegated delete, returns
\* an error that holds the v6 plugin's error whatever the delete answers, and the v4
\* plugin's result as the default result, which holds the v4 IP and no other, with
\* ipv6Enabled false.
C28_V6FailureRollsBackV4 ==
    (V4Succeeded /\ last.ipv6Mode # "" /\ V6Error # "") =>
        /\ last.calls = <<Call("DelegateAdd", "", ""), Call("DelegateAdd", ipamV6, V6Error),
                          Call("DelegateDel", "", plugin.del.err)>>
        /\ last.err # NoErr
        /\ last.err.cause = V6Error
        /\ last.result.defaultCniResult.ipResult = V4Given
        /\ Len(last.result.defaultCniResult.ipResult.IPs) = 1
        /\ To4(last.result.defaultCniResult.ipResult.IPs[1].Address.IP) # NilIP
        /\ last.result.cniResults = <<>>
        /\ ~last.result.ipv6Enabled

\* the test "error on ipv4+ipv6", with a delegated delete that fails as well
C28_Witness ==
    /\ last.op = "LocalAdd"
    /\ last.ipv6Mode = "ipv6nat"
    /\ plugin.resultsIPv4 = getSingleResult("10.0.0.1", 24)
    /\ plugin.errv6 = "test v6 error"
    /\ plugin.del.err = "test delete error"
    /\ last.err = Errorf("Failed to allocate v6 pool", "test v6 error")
    /\ last.result.defaultCniResult.ipResult = getResult(<<Cidr("10.0.0.1", 24)>>)
    /\ ~last.result.ipv6Enabled

\* C29: a Local Add whose v4 plugin fails returns an error that holds the plugin's
\* error, so that the error of an exhausted pool stays recognisable, calls the v4
\* plugin and never the v6 plugin, with ipv6 mode set or not, and returns the empty
\* result: the default result is nil and holds no IP.
C29_V4FailureFailsAdd ==
    (last.op = "LocalAdd" /\ V4Error # "") =>
        /\ last.calls # <<>>
        /\ \A i \in 1..Len(last.calls) : last.calls[i] = Call("DelegateAdd", "", V4Error)
        /\ last.err # NoErr
        /\ last.err.cause = V4Error
        /\ last.result = EmptyAddResult
        /\ last.result.defaultCniResult.ipResult.IPs = <<>>
        /\ plugin.resultsIPv6Index = 0

\* the exhausted pool of TestRemoveIpamState_Add, with ipv6 mode set
C29_Witness ==
    /\ last.op = "LocalAdd"
    /\ last.ipv6Mode = "ipv6nat"
    /\ plugin.errv4 = ErrNoAvailableAddressPools
    /\ plugin.resultsIPv6 # <<>>
    /\ plugin.errv6 = ""
    /\ last.err.cause = ErrNoAvailableAddressPools
    /\ Len(last.calls) = 1

\* C30: a successful Local Add returns one default result and no other. With ipv6
\* mode set its IPs are the IPs of the v4 plugin's result followed by the IPs of
\* the v6 plugin's result, and both plugins were called, the v4 one first; without
\* ipv6 mode its IPs are the IPs of the v4 plugin's result, ipv6Enabled is false
\* and the v6 plugin was not called.
C30_V4ThenV6 ==
    (last.op = "LocalAdd" /\ last.err = NoErr) =>
        /\ last.result.cniResults = <<>>
        /\ last.result.defaultCniResult.ipResult.nonNil
        /\ IF last.ipv6Mode # ""
           THEN /\ last.result.defaultCniResult.ipResult.IPs =
                       V4Given.IPs \o plugin.resultsIPv6[plugin.resultsIPv6Index].IPs
                /\ last.calls = <<Call("DelegateAdd", "", ""), Call("DelegateAdd", ipamV6, "")>>
           ELSE /\ last.result.defaultCniResult.ipResult.IPs = V4Given.IPs
                /\ ~last.result.ipv6Enabled
                /\ last.calls = <<Call("DelegateAdd", "", "")>>

\* the test "happy add ipv4+ipv6"
C30_Witness ==
    /\ last.op = "LocalAdd"
    /\ last.err = NoErr
    /\ last.ipv6Mode = "ipv6nat"
    /\ last.result.defaultCniResult.ipResult =
          getResult(<<Cidr("10.0.0.1", 24), Cidr("2001:0db8:abcd:0015::0", 64)>>)

\* C31: a Local Delete with a nil address fails with the invalid-address error and
\* calls no plugin. With an address it makes one call, the delegated delete of the
\* v4 plugin for an IPv4 address and of the v6 plugin for an IPv6 one, and returns
\* no error when the plugin returns none and the plugin's error when it fails.
C31_LocalDeleteByFamily ==
    last.op = "LocalDelete" =>
        IF last.address = NilIPNet
        THEN last.err = errInvalidAddress /\ last.calls = <<>>
        ELSE /\ last.calls =
                  <<Call("DelegateDel",
                         IF To4(last.address.IP) # NilIP THEN "" ELSE ipamV6,
                         plugin.del.err)>>
             /\ last.err = IF plugin.del.err = "" THEN NoErr ELSE Err(plugin.del.err, "")

\* a v6 address whose delegated delete fails, as in the test "error on v6 delete"
C31_Witness ==
    /\ last.op = "LocalDelete"
    /\ last.address = getCIDRNotationForAddress("2001:0db8:abcd:0015::0", 64)
    /\ last.calls = <<Call("DelegateDel", ipamV6, "test delete error")>>
    /\ last.err = Err("test delete error", "")

\* the step is a Delete: the record of the last operation is one of a Delete and
\* is new, or the backend or the watcher's directory changed with it
DeleteActed ==
    /\ last'.op = "Delete"
    /\ <<last, cnsAllocs, deleteIDs, podState>>' # <<last, cnsAllocs, deleteIDs, podState>>

\* C32: a Delete of the Remote adapter, whatever it returns, leaves the options map
\* as it is, adds no command to the commands still to be executed and removes none,
\* and leaves the host's nat table as it is.
C32_DeleteLeavesHostRules ==
    [][DeleteActed =>
          /\ options' = options
          /\ pending' = pending
          /\ nat' = nat]_vars

\* a Delete that failed while the commands of an Add were still to be executed
C32_Witness ==
    /\ last.op = "Delete"
    /\ last.err # NoErr
    /\ options.IPTablesKey # <<>>
    /\ pending # <<>>

\* C33, as claimed: Add is total. On every response, the empty one and one holding
\* only secondary allocations included, it returns a result or an error; it never
\* ends in the nil dereference of the default result.
C33_AddIsTotal ==
    last.op = "Add" =>
        /\ last.err # PanicErr
        /\ (Processed /\ OfType(FALSE) = {}) =>
              (last.err # NoErr \/ last.result.defaultCniResult.ipResult.nonNil)

\* C34, as claimed: an Add that returns an error leaves the options map as it
\* received it: no snat-ip, no routes and no iptables commands are written.
C34_FailedAddLeavesOptions ==
    (last.op = "Add" /\ last.err # NoErr) => options = EmptyOptions

\* the nat table holds two copies of a rule
Duplicated(t) == \E i, j \in 1..Len(t.rules) : i < j /\ t.rules[i] = t.rules[j]

\* C35, as claimed: however the rule checks of parallel ADDs and the executions of
\* their commands interleave, the nat table never holds two copies of a SNAT rule
\* or of the POSTROUTING jump, and no creation of the chain is up for execution
\* while the chain exists.
C35_NoDuplicateRules ==
    /\ ~Duplicated(nat)
    /\ \A pid \in PodInterfaceIDs :
          (queue[pid] # <<>> /\ Head(queue[pid]).op = "N") =>
              ~ChainExists(nat, Head(queue[pid]).rule.chain)

\* ------------------------------------------------------------------ the secondary endpoint client: properties

\* the names with an entry in SecondaryInterfaces
Registered(e) == {n \in IfNames : e.SecondaryInterfaces[n] # <<>>}

\* what identifies an entry: everything but the routes recorded in it later
Identity(info) ==
    [Name |-> info.Name, MacAddress |-> info.MacAddress, IPAddress |-> info.IPAddress,
     NICType |-> info.NICType, IsDefaultInterface |-> info.IsDefaultInterface]

\* a step that is a call of AddEndpoints
AddEndpointsActed == ep'.call.op = "AddEndpoints" /\ ep' # ep

\* C36: SecondaryInterfaces holds one entry per interface name and an entry is never
\* overwritten: an AddEndpoints whose MAC resolves to a registered name fails with
\* "already exists" and leaves the map as it was, one whose MAC does not resolve
\* fails and leaves the map as it was, any other adds exactly one entry, under the
\* resolved name; and no step of the client changes what identifies an entry.
C36_EntriesNeverOverwritten ==
    [][/\ \A n \in Registered(ep) :
            /\ n \in Registered(ep')
            /\ Identity(ep'.SecondaryInterfaces[n][1]) = Identity(ep.SecondaryInterfaces[n][1])
       /\ \A n \in Registered(ep') :
            Len(ep'.SecondaryInterfaces[n]) = 1 /\ ep'.SecondaryInterfaces[n][1].Name = n
       /\ AddEndpointsActed =>
            LET mac == ep'.call.epInfo.MacAddress
                iface == GetNetworkInterfaceByMac(mac)
            IN  IF iface.err # ""
                THEN /\ ep'.call.err # NoErr
                     /\ ep'.SecondaryInterfaces = ep.SecondaryInterfaces
                ELSE IF iface.Name \in Registered(ep)
                THEN /\ ep'.call.err = newErrorSecondaryEndpointClient(iface.Name \o " already exists")
                     /\ ep'.SecondaryInterfaces = ep.SecondaryInterfaces
                ELSE /\ ep'.call.err = NoErr
                     /\ Registered(ep') = Registered(ep) \cup {iface.Name}
                     /\ \A n \in Registered(ep) : ep'.SecondaryInterfaces[n] = ep.SecondaryInterfaces[n]
                     /\ ep'.SecondaryInterfaces[iface.Name][1].MacAddress = mac
                     /\ ep'.SecondaryInterfaces[iface.Name][1].IsDefaultInterface
                            = ep'.call.epInfo.IsDefaultInterface
      ]_vars

\* an AddEndpoints for a default interface was refused because eth1 is registered
\* as an interface that is not the default
C36_Witness ==
    /\ ep.call.op = "AddEndpoints"
    /\ ep.call.err = newErrorSecondaryEndpointClient("eth1 already exists")
    /\ ep.call.epInfo.IsDefaultInterface
    /\ "eth1" \in Registered(ep)
    /\ ~ep.SecondaryInterfaces["eth1"][1].IsDefaultInterface

\* a step that is a call of ConfigureContainerInterfacesAndRoutes
ConfigureActed == ep'.call.op = "ConfigureContainerInterfacesAndRoutes" /\ ep' # ep

\* C37: ConfigureContainerInterfacesAndRoutes for an interface name that is not
\* registered in SecondaryInterfaces returns an error and changes nothing: no
\* address is assigned, no route is added, no route is recorded.
C37_UnregisteredChangesNothing ==
    [][ConfigureActed /\ ep'.call.epInfo.IfName \notin Registered(ep) =>
            /\ ep'.call.err # NoErr
            /\ ep'.addrs = ep.addrs
            /\ ep'.routes = ep.routes
            /\ ep'.SecondaryInterfaces = ep.SecondaryInterfaces
      ]_vars

\* the routes recorded in the entry of an interface, as a set
Recorded(e, n) ==
    {e.SecondaryInterfaces[n][1].Routes[i] : i \in 1..Len(e.SecondaryInterfaces[n][1].Routes)}

\* the routes a step has recorded in the entry of an interface
NewlyRecorded(n) ==
    IF n \in Registered(ep)
    THEN SubSeq(ep'.SecondaryInterfaces[n][1].Routes,
                Len(ep.SecondaryInterfaces[n][1].Routes) + 1,
                Len(ep'.SecondaryInterfaces[n][1].Routes))
    ELSE ep'.SecondaryInterfaces[n][1].Routes

\* C38: every route recorded in the Routes of a secondary interface was added to
\* that interface before: the recorded routes only grow, by routes the netlink has
\* added, and a call that fails records none of the routes of the endpoint info it
\* was adding (the current client records nothing at all then, the older one at
\* most the gateway routes it had added before the failure).
C38_RecordedRoutesWereAdded ==
    [][\A n \in Registered(ep') :
         /\ Recorded(ep', n) \subseteq ep'.routes[n]
         /\ n \in Registered(ep) =>
                /\ Len(ep'.SecondaryInterfaces[n][1].Routes) >= Len(ep.SecondaryInterfaces[n][1].Routes)
                /\ SubSeq(ep'.SecondaryInterfaces[n][1].Routes, 1,
                          Len(ep.SecondaryInterfaces[n][1].Routes))
                       = ep.SecondaryInterfaces[n][1].Routes
         /\ ConfigureActed /\ ep'.call.err # NoErr =>
                /\ \A i \in 1..Len(NewlyRecorded(n)) :
                       /\ \A j \in 1..Len(ep'.call.epInfo.Routes) :
                              NewlyRecorded(n)[i] # ep'.call.epInfo.Routes[j]
                       /\ NewlyRecorded(n)[i] \in {virtualGwRoute, defaultRouteViaGw}
                /\ ~ep.legacy => NewlyRecorded(n) = <<>>
      ]_vars

\* a call failed on the second of two routes: the first is on the link and not in
\* the list, which holds routes of an earlier call
C38_Witness ==
    /\ ep.call.op = "ConfigureContainerInterfacesAndRoutes"
    /\ ep.call.err # NoErr
    /\ ep.call.epInfo.IfName = "eth1"
    /\ "eth1" \in Registered(ep)
    /\ epRoutes[1] \in ep.routes["eth1"]
    /\ epRoutes[1] \notin Recorded(ep, "eth1")
    /\ Recorded(ep, "eth1") # {}

\* C39: every successful ConfigureContainerInterfacesAndRoutes of the current client
\* adds the routes of the endpoint info to the interface and records them, for a
\* default interface as for any other; for a default interface the default route
\* is added as well.
C39_EndpointRoutesAlwaysAdded ==
    [][ConfigureActed /\ ~ep.legacy /\ ep'.call.err = NoErr =>
            LET n == ep'.call.epInfo.IfName
                given == {ep'.call.epInfo.Routes[i] : i \in 1..Len(ep'.call.epInfo.Routes)}
            IN  /\ given \subseteq ep'.routes[n]
                /\ given \subseteq Recorded(ep', n)
                /\ ep'.call.epInfo.IsDefaultInterface => defaultRoute \in ep'.routes[n]
      ]_vars

\* C40: GetCurrentThreadNamespace of the mock namespace client returns a namespace
\* object and no error on every call.
C40_CurrentNamespaceReturned ==
    ep.call.op = "GetCurrentThreadNamespace" => ep.call.ns /\ ep.call.err = NoErr

====
